---------------------------- MODULE Spec2Model ----------------------------
(***************************************************************************)
(* A model of the gear-cutting core of cadbook: createGearPair's           *)
(* validation and call order, the RecordingPen path recorder, the arc      *)
(* interpolation helper, the half-plane clipping pen and the XForm         *)
(* transform compositor.                                                   *)
(*                                                                         *)
(* Numbers.  JavaScript numbers are modelled by integers and, where the    *)
(* code divides, by exact rationals <<n, d>>.  Angles ("turn") are counted *)
(* in quarter turns (1 = PI/2) wherever the code takes their sine, so that *)
(* the trigonometry is exact; the recorder only stores and negates turns.  *)
(***************************************************************************)
EXTENDS Integers, Sequences, FiniteSets, TLC

VARIABLES
  gear,   \* one createGearPair call: its props, the calls it made, its outcome
  rec,    \* RecordingPen scenario: the recorder r and the recorders it is replayed onto
  arc,    \* one interpolateArcTurn evaluation
  clip,   \* CrappyClippingPen: its fields, the input it was sent, what its target got
  xf,     \* XForm scenario: the builder's fields and the operations sent through apply()
  draw,   \* one invocation of a sketch (drawGearFromTooth): the tooth, the calls the Pen2D got
  fil,    \* a fillet pen: the pens under it, its fields, the calls made on it and on its target
  pq,     \* a priority queue: the array, what the last pqpop returned
  near,   \* RecordingPen.arcTo close to the last point: the recorder before and after, the arguments
  flip,   \* reverseAndFlipPath applied twice to a recorded path: the recorders, the calls of the result
  cp,     \* RecordingPen2D: its paths, the last call, the paths before a closePath
  ccw,    \* MakeCCWPen: its recorder's paths and the calls its target got
  fs,     \* FileServer: stored files, the clock, the last URL and result
  gfs,    \* getFileServer: the singleton, its server and each caller's promise
  shaper  \* OCBodyShaper: stored shapes, the meshed set, and what was meshed

vars == <<gear, rec, arc, clip, xf, draw, fil, pq, near, flip, cp, ccw, fs, gfs, shaper>>

(***************************************************************************)
(* Small helpers                                                           *)
(***************************************************************************)
Last(s) == s[Len(s)]
Front(s) == SubSeq(s, 1, Len(s) - 1)

(***************************************************************************)
(* Exact rationals <<n, d>>, d > 0, in lowest terms                        *)
(***************************************************************************)
Abs(n) == IF n < 0 THEN -n ELSE n
RECURSIVE GCD(_, _)
GCD(a, b) == IF b = 0 THEN a ELSE GCD(b, a % b)
Rat(n, d) ==
  LET g == GCD(Abs(n), Abs(d))
      sg == IF d < 0 THEN -1 ELSE 1
  IN  <<(sg * n) \div g, (sg * d) \div g>>
RInt(n) == <<n, 1>>
RAdd(a, b) == Rat(a[1] * b[2] + b[1] * a[2], a[2] * b[2])
RNeg(a) == <<-a[1], a[2]>>
RSub(a, b) == RAdd(a, RNeg(b))
RMul(a, b) == Rat(a[1] * b[1], a[2] * b[2])
RDiv(a, b) == Rat(a[1] * b[2], a[2] * b[1])
RLt(a, b) == a[1] * b[2] < b[1] * a[2]
RLeq(a, b) == a[1] * b[2] <= b[1] * a[2]
RHalf == <<1, 2>>

(***************************************************************************)
(* createGearPair (src/src/gearcutter/index.ts)                            *)
(***************************************************************************)
\* Largest tooth count tried.
MaxTeeth == 6

\* A JavaScript number used as `size`: a finite number, NaN or +/-Infinity.
Num(v) == [k |-> "num", v |-> v]
NaN == [k |-> "nan", v |-> 0]
PosInf == [k |-> "inf", v |-> 1]
NegInf == [k |-> "inf", v |-> -1]
SizeValues == {NaN, PosInf, NegInf, Num(-1), Num(0), Num(1), Num(2)}
SizeTypes == {"mod", "diaPitch", "centerDist"}

\* The tooth counts of the end-to-end example, tried besides 0..MaxTeeth
ExampleTeeth == {12, 40}
TeethValues == 0..MaxTeeth \cup ExampleTeeth

GearPairProps ==
  [gearTeeth : TeethValues, pinionTeeth : TeethValues, isInternalGear : BOOLEAN,
   isMaxFillet : BOOLEAN, sizeType : SizeTypes, size : SizeValues]

\* isFinite(x)
isFinite(x) == x.k = "num"
\* x <= 0 in JavaScript: false for NaN
LeqZero(x) == \/ x.k = "num" /\ x.v <= 0
              \/ x = NegInf

\* `if (gearTeeth < 4) throw` (a variant that lets 3 teeth through)
TooFewGearTeethOff(p) == p.gearTeeth < 3
TooFewGearTeeth(p) == p.gearTeeth < 4

\* `if (isInternal && gearTeeth <= pinionTeeth) throw` (a variant with <)
BadInternalOff(p) == p.isInternalGear /\ p.gearTeeth < p.pinionTeeth
BadInternal(p) == p.isInternalGear /\ p.gearTeeth <= p.pinionTeeth

\* `if (!isFinite(sizeNumber) || sizeNumber <= 0) throw` (a variant with < 0)
BadSizeOff(p) == ~isFinite(p.size) \/ (p.size.k = "num" /\ p.size.v < 0)
BadSize(p) == ~isFinite(p.size) \/ LeqZero(p.size)

\* A number c * PI^e with c rational: the lengths createGearPair computes
PiNum(c, e) == [c |-> c, e |-> e]
PiMul(a, b) == PiNum(RMul(a.c, b.c), a.e + b.e)
PiDiv(a, b) == PiNum(RDiv(a.c, b.c), a.e - b.e)
\* a + b and -a, for a and b with the same power of PI
PiAdd(a, b) == PiNum(RAdd(a.c, b.c), a.e)
PiNeg(a) == PiNum(RNeg(a.c), a.e)
\* Math.PI
PI == PiNum(RInt(1), 1)

\* (gearTeeth * 0.5) / Math.PI and (pinionTeeth * 0.5) / Math.PI
gearRadius(p) == PiDiv(PiNum(Rat(p.gearTeeth, 2), 0), PI)
pinionRadius(p) == PiDiv(PiNum(Rat(p.pinionTeeth, 2), 0), PI)

\* szLen (first a variant that takes 1.0 for 'mod' as for 'diaPitch')
szLenModOne(p) ==
  IF p.sizeType = "centerDist"
    THEN PiAdd(gearRadius(p),
               IF p.isInternalGear THEN PiNeg(pinionRadius(p)) ELSE pinionRadius(p))
  ELSE PiNum(RInt(1), 0)
szLen(p) ==
  IF p.sizeType = "diaPitch" THEN PiNum(RInt(1), 0)
  ELSE IF p.sizeType = "centerDist"
    THEN PiAdd(gearRadius(p),
               IF p.isInternalGear THEN PiNeg(pinionRadius(p)) ELSE pinionRadius(p))
  ELSE PiDiv(PiNum(RInt(1), 0), PI)

\* scale = sizeNumber / szLen, for a finite size
scaleOf(p) == PiDiv(PiNum(RInt(p.size.v), 0), szLen(p))

\* gearPitchDiameter and pinionPitchDiameter of the result
gearPitchDiameter(p) == PiMul(PiMul(gearRadius(p), PiNum(RInt(2), 0)), scaleOf(p))
pinionPitchDiameter(p) == PiMul(PiMul(pinionRadius(p), PiNum(RInt(2), 0)), scaleOf(p))

\* What `new ToothCutter(...)` followed by processPath/drawToothPath can do.
\* ToothCutter.ts is not among the sources: the constructor and the synthesis
\* either complete or fail hard (spec section 7, taxonomy (b)).
ToothCutterOutcomes == {"ok", "throw"}

CallRack == [fn |-> "makeRack", teeth |-> 0]
CallCutter(n) == [fn |-> "ToothCutter", teeth |-> n]

\* The calls createGearPair makes and how it ends, for props p, when the pinion's
\* and the gear's tooth cutters behave as tcP and tcG.
GearRun(p, tcP, tcG) ==
  IF TooFewGearTeeth(p)
    THEN [calls |-> <<>>, outcome |-> "threw",
          error |-> "Can't have less than 4 gear teeth"]
  ELSE IF BadInternal(p)
    THEN [calls |-> <<>>, outcome |-> "threw",
          error |-> "Pinion must have fewer teeth than internal gear"]
  ELSE IF BadSize(p)
    THEN [calls |-> <<>>, outcome |-> "threw", error |-> "Invalid size number"]
  ELSE LET racks == <<CallRack, CallRack>>
           afterP == Append(racks, CallCutter(p.pinionTeeth))
       IN  IF tcP = "throw"
             THEN [calls |-> afterP, outcome |-> "threw", error |-> "ToothCutter"]
           ELSE IF tcG = "throw"
             THEN [calls |-> Append(afterP, CallCutter(p.gearTeeth)),
                   outcome |-> "threw", error |-> "ToothCutter"]
           ELSE [calls |-> Append(afterP, CallCutter(p.gearTeeth)),
                 outcome |-> "returned", error |-> ""]

GearIdle ==
  [phase |-> "idle",
   props |-> [gearTeeth |-> 0, pinionTeeth |-> 0, isInternalGear |-> FALSE,
              isMaxFillet |-> FALSE, sizeType |-> "mod", size |-> Num(1)],
   calls |-> <<>>, outcome |-> "none", error |-> "", result |-> <<>>]

GearInit == gear = GearIdle

\* createGearPair(props)
CreateGearPair ==
  /\ gear.phase = "idle"
  /\ \E p \in GearPairProps, tcP \in ToothCutterOutcomes, tcG \in ToothCutterOutcomes :
       LET run == GearRun(p, tcP, tcG)
       IN  gear' = [phase |-> "called", props |-> p, calls |-> run.calls,
                    outcome |-> run.outcome, error |-> run.error,
                    result |-> IF run.outcome = "returned"
                                 THEN <<[gearPitchDiameter |-> gearPitchDiameter(p),
                                         pinionPitchDiameter |-> pinionPitchDiameter(p)]>>
                               ELSE <<>>]
  /\ UNCHANGED <<rec, arc, clip, xf, draw, fil, pq, near, flip, cp, ccw, fs, gfs, shaper>>

RacksBuilt == {i \in 1..Len(gear.calls) : gear.calls[i].fn = "makeRack"}
CuttersBuilt == {i \in 1..Len(gear.calls) : gear.calls[i].fn = "ToothCutter"}
NoCurveWork == gear.calls = <<>> /\ RacksBuilt = {} /\ CuttersBuilt = {}

\* C1: createGearPair with gearTeeth < 4 throws the configuration error before
\* any rack is built and before any ToothCutter is constructed, and returns no
\* result, whatever the other properties are.
C1_FewGearTeethFailFast ==
  (gear.phase = "called" /\ gear.props.gearTeeth < 4) =>
    /\ gear.outcome = "threw"
    /\ gear.error = "Can't have less than 4 gear teeth"
    /\ NoCurveWork

C1_Witness ==
  /\ gear.phase = "called" /\ gear.props.gearTeeth = 3 /\ gear.props.pinionTeeth = 5
  /\ gear.props.size = Num(2) /\ gear.outcome = "threw"

\* C2: an internal-gear request with gearTeeth <= pinionTeeth throws before any
\* rack or tooth-cutter work; an internal-gear request only reaches synthesis
\* (a rack or a ToothCutter) when gearTeeth > pinionTeeth.
C2_InternalNeedsSmallerPinion ==
  /\ (gear.phase = "called" /\ gear.props.isInternalGear
        /\ gear.props.gearTeeth <= gear.props.pinionTeeth) =>
       (gear.outcome = "threw" /\ NoCurveWork)
  /\ (gear.phase = "called" /\ gear.props.isInternalGear /\ ~NoCurveWork) =>
       gear.props.gearTeeth > gear.props.pinionTeeth

C2_Witness ==
  /\ gear.phase = "called" /\ gear.props.isInternalGear
  /\ gear.props.gearTeeth = 5 /\ gear.props.pinionTeeth = 5
  /\ gear.props.size = Num(1)
  /\ gear.error = "Pinion must have fewer teeth than internal gear"

\* C3: createGearPair with a size that is NaN, infinite, zero or negative throws
\* before any rack is built or any ToothCutter is constructed and returns nothing.
C3_BadSizeFailFast ==
  (gear.phase = "called"
     /\ (gear.props.size \in {NaN, PosInf, NegInf}
           \/ (gear.props.size.k = "num" /\ gear.props.size.v <= 0))) =>
    (gear.outcome = "threw" /\ NoCurveWork)

C3_Witness ==
  /\ gear.phase = "called" /\ gear.props.size = Num(0)
  /\ gear.props.gearTeeth = 6 /\ gear.props.pinionTeeth = 4
  /\ gear.error = "Invalid size number"

\* C4: createGearPair fails fast, before any rack or ToothCutter is created,
\* whenever a gear with fewer than 4 teeth is requested, the pinion included.
C4_FewTeethEitherFailFast ==
  (gear.phase = "called"
     /\ (gear.props.gearTeeth < 4 \/ gear.props.pinionTeeth < 4)) =>
    (gear.outcome = "threw" /\ NoCurveWork)

\* C12 as stated: for sizeType 'mod' the reported pitch diameters are
\* 2 * (teeth * 0.5 / PI) * size.
C12_ModPitchDiameterOverPi ==
  (gear.phase = "called" /\ gear.outcome = "returned" /\ gear.props.sizeType = "mod") =>
    /\ gear.result[1].gearPitchDiameter =
         PiNum(RInt(gear.props.gearTeeth * gear.props.size.v), -1)
    /\ gear.result[1].pinionPitchDiameter =
         PiNum(RInt(gear.props.pinionTeeth * gear.props.size.v), -1)

\* C12, amended: for sizeType 'mod' the scale is size * PI, so the reported
\* pitch diameters are 2 * (teeth * 0.5 / PI) * (size * PI) = teeth * size:
\* 80 and 24 for 40 and 12 teeth of module 2.
C12_ModPitchDiameterIsTeethTimesSize ==
  (gear.phase = "called" /\ gear.outcome = "returned" /\ gear.props.sizeType = "mod") =>
    /\ gear.result[1].gearPitchDiameter =
         PiNum(RInt(gear.props.gearTeeth * gear.props.size.v), 0)
    /\ gear.result[1].pinionPitchDiameter =
         PiNum(RInt(gear.props.pinionTeeth * gear.props.size.v), 0)

C12_Witness ==
  /\ gear.phase = "called" /\ gear.outcome = "returned" /\ gear.props.sizeType = "mod"
  /\ gear.props.gearTeeth = 40 /\ gear.props.pinionTeeth = 12 /\ gear.props.size = Num(2)
  /\ gear.result[1].gearPitchDiameter = PiNum(RInt(80), 0)
  /\ gear.result[1].pinionPitchDiameter = PiNum(RInt(24), 0)

(***************************************************************************)
(* RecordingPen (src/src/gearcutter/RecordingPen.ts)                       *)
(*                                                                         *)
(* Coordinates are integers counting units of 1e-8, so squared distances   *)
(* count units of 1e-16: the recorder's thresholds 1e-14 and 1e-8 are 100  *)
(* and 10^8 of them.  A turn is Null (a moveTo) or <<t>> (an arcTo).       *)
(***************************************************************************)
\* Longest operation list recorded.
MaxOps == 4

Null == <<>>
Turn(t) == <<t>>
DropMag2 == 100
CoerceMag2 == 100000000

RecPoints == {<<0, 0>>, <<5, 0>>, <<0, 20>>, <<20000, 20>>}
RecTurns == {-1, 0, 2}

NewPen == [xs |-> <<>>, ys |-> <<>>, turns |-> <<>>]
PenLen(pen) == Len(pen.turns)
PenPop(pen) == [xs |-> Front(pen.xs), ys |-> Front(pen.ys), turns |-> Front(pen.turns)]
PenPush(pen, x, y, a) ==
  [xs |-> Append(pen.xs, x), ys |-> Append(pen.ys, y), turns |-> Append(pen.turns, a)]

MoveCall(x, y) == [op |-> "moveTo", x |-> x, y |-> y, turn |-> 0]
ArcCall(x, y, t) == [op |-> "arcTo", x |-> x, y |-> y, turn |-> t]

\* RecordingPen.reset
PenReset(pen) == NewPen

\* RecordingPen.moveTo (a variant that keeps a trailing bare move)
PenMoveToKeep(pen, x, y) == PenPush(pen, x, y, Null)
PenMoveTo(pen, x, y) ==
  LET p == IF PenLen(pen) # 0 /\ Last(pen.turns) = Null THEN PenPop(pen) ELSE pen
  IN  PenPush(p, x, y, Null)

\* RecordingPen.arcTo: the recorder afterwards and whether the call threw
\* (first a variant that also drops a point at exactly the lower threshold)
PenArcToDropEqual(pen, x, y, turn) ==
  IF PenLen(pen) = 0
    THEN [pen |-> pen, threw |-> TRUE]
  ELSE LET dx == x - Last(pen.xs)
           dy == y - Last(pen.ys)
           mag2 == dx * dx + dy * dy
       IN  IF mag2 <= DropMag2
             THEN [pen |-> pen, threw |-> FALSE]
           ELSE [pen |-> PenPush(pen, x, y, Turn(IF mag2 < CoerceMag2 THEN 0 ELSE turn)),
                 threw |-> FALSE]
PenArcTo(pen, x, y, turn) ==
  IF PenLen(pen) = 0
    THEN [pen |-> pen, threw |-> TRUE]
  ELSE LET dx == x - Last(pen.xs)
           dy == y - Last(pen.ys)
           mag2 == dx * dx + dy * dy
       IN  IF mag2 < DropMag2
             THEN [pen |-> pen, threw |-> FALSE]
           ELSE [pen |-> PenPush(pen, x, y, Turn(IF mag2 < CoerceMag2 THEN 0 ELSE turn)),
                 threw |-> FALSE]

\* The operation at (1-based) index i of a recorder
PenOp(pen, i) ==
  IF pen.turns[i] = Null THEN MoveCall(pen.xs[i], pen.ys[i])
  ELSE ArcCall(pen.xs[i], pen.ys[i], pen.turns[i][1])
PenOps(pen) == [i \in 1..PenLen(pen) |-> PenOp(pen, i)]

\* RecordingPen.path: the calls it makes on the pen it is given
\* (a variant that skips the leading moves when doMove is set, not when it is clear)
pathSkipWrong(pen, doMove) ==
  LET n == PenLen(pen)
      arcs == {i \in 1..n : pen.turns[i] # Null}
      first == IF ~doMove THEN 1
               ELSE IF arcs = {} THEN n + 1
               ELSE CHOOSE i \in arcs : \A j \in arcs : i <= j
  IN  [k \in 1..(n + 1 - first) |-> PenOp(pen, first + k - 1)]
path(pen, doMove) ==
  LET n == PenLen(pen)
      arcs == {i \in 1..n : pen.turns[i] # Null}
      first == IF doMove THEN 1
               ELSE IF arcs = {} THEN n + 1
               ELSE CHOOSE i \in arcs : \A j \in arcs : i <= j
  IN  [k \in 1..(n + 1 - first) |-> PenOp(pen, first + k - 1)]

\* turns[i] of the code (0-based), null past the end
TurnAt0(pen, i) == IF i >= PenLen(pen) THEN Null ELSE pen.turns[i + 1]

\* The index the loop of reversedPath starts from
RevStart(pen, doMove) ==
  LET n == PenLen(pen)
      arcs0 == {i \in 0..(n - 1) : TurnAt0(pen, i) # Null}
  IN  IF doMove THEN n
      ELSE IF arcs0 = {} THEN -1
      ELSE CHOOSE i \in arcs0 : \A j \in arcs0 : j <= i

\* One call of reversedPath's loop, for the code's index i (i > 0)
\* (first a variant that forgets to negate the turn)
RevCallSameTurn(pen, i) ==
  LET a == TurnAt0(pen, i)
  IN  IF a = Null THEN MoveCall(pen.xs[i], pen.ys[i])
      ELSE ArcCall(pen.xs[i], pen.ys[i], a[1])
RevCall(pen, i) ==
  LET a == TurnAt0(pen, i)
  IN  IF a = Null THEN MoveCall(pen.xs[i], pen.ys[i])
      ELSE ArcCall(pen.xs[i], pen.ys[i], -a[1])
\* RecordingPen.reversedPath: the calls it makes on the pen it is given
reversedPath(pen, doMove) ==
  LET i0 == RevStart(pen, doMove)
  IN  [k \in 1..(IF i0 > 0 THEN i0 ELSE 0) |-> RevCall(pen, i0 - k + 1)]

\* Sending a list of calls to a RecordingPen; an arcTo that throws ends the replay
RECURSIVE PlayFrom(_, _, _)
PlayFrom(calls, i, pen) ==
  IF i > Len(calls) THEN [pen |-> pen, threw |-> FALSE]
  ELSE LET c == calls[i]
       IN  IF c.op = "moveTo" THEN PlayFrom(calls, i + 1, PenMoveTo(pen, c.x, c.y))
           ELSE LET res == PenArcTo(pen, c.x, c.y, c.turn)
                IN  IF res.threw THEN res ELSE PlayFrom(calls, i + 1, res.pen)
Play(calls, pen) == PlayFrom(calls, 1, pen)

RecFresh ==
  [r |-> NewPen, r2 |-> NewPen, r3 |-> NewPen, phase |-> "record",
   last |-> "new", threw |-> FALSE, doMove |-> TRUE]

RecInit == rec = RecFresh

\* r.moveTo(x, y)
RecMoveTo ==
  /\ rec.phase = "record" /\ PenLen(rec.r) < MaxOps
  /\ \E pt \in RecPoints :
       rec' = [rec EXCEPT !.r = PenMoveTo(rec.r, pt[1], pt[2]),
                          !.last = "moveTo", !.threw = FALSE]
  /\ UNCHANGED <<gear, arc, clip, xf, draw, fil, pq, near, flip, cp, ccw, fs, gfs, shaper>>

\* r.arcTo(x, y, turn)
RecArcTo ==
  /\ rec.phase = "record" /\ PenLen(rec.r) < MaxOps
  /\ \E pt \in RecPoints, t \in RecTurns :
       LET res == PenArcTo(rec.r, pt[1], pt[2], t)
       IN  rec' = [rec EXCEPT !.r = res.pen, !.last = "arcTo", !.threw = res.threw]
  /\ UNCHANGED <<gear, arc, clip, xf, draw, fil, pq, near, flip, cp, ccw, fs, gfs, shaper>>

\* r.reset()
RecReset ==
  /\ rec.phase = "record" /\ rec.last # "reset"
  /\ rec' = [rec EXCEPT !.r = PenReset(rec.r), !.last = "reset", !.threw = FALSE]
  /\ UNCHANGED <<gear, arc, clip, xf, draw, fil, pq, near, flip, cp, ccw, fs, gfs, shaper>>

\* r2 = new RecordingPen(); r.path(r2, doMove)
ReplayForward ==
  /\ rec.phase = "record"
  /\ \E doMove \in BOOLEAN :
       LET res == Play(path(rec.r, doMove), NewPen)
       IN  rec' = [rec EXCEPT !.r2 = res.pen, !.phase = "forward",
                              !.last = "path", !.threw = res.threw, !.doMove = doMove]
  /\ UNCHANGED <<gear, arc, clip, xf, draw, fil, pq, near, flip, cp, ccw, fs, gfs, shaper>>

\* r2 = new RecordingPen(); r.reversedPath(r2, doMove);
\* r3 = new RecordingPen(); r2.reversedPath(r3, doMove)
ReplayReversed ==
  /\ rec.phase = "record"
  /\ \E doMove \in BOOLEAN :
       LET res2 == Play(reversedPath(rec.r, doMove), NewPen)
           res3 == Play(reversedPath(res2.pen, doMove), NewPen)
       IN  rec' = [rec EXCEPT !.r2 = res2.pen, !.r3 = res3.pen, !.phase = "reversed",
                              !.last = "reversedPath",
                              !.threw = res2.threw \/ res3.threw, !.doMove = doMove]
  /\ UNCHANGED <<gear, arc, clip, xf, draw, fil, pq, near, flip, cp, ccw, fs, gfs, shaper>>

RecNext ==
  \/ RecMoveTo
  \/ RecArcTo
  \/ RecReset
  \/ ReplayForward
  \/ ReplayReversed

\* A recorded list is well formed: empty or starting with a move, and never
\* holding two moves in a row.
WellFormed(pen) ==
  /\ PenLen(pen) = 0 \/ pen.turns[1] = Null
  /\ \A i \in 1..(PenLen(pen) - 1) : ~(pen.turns[i] = Null /\ pen.turns[i + 1] = Null)

\* C5: after any sequence of moveTo, arcTo and reset the recorded list is empty
\* or starts with a Move and never holds two consecutive Moves; an arcTo issued
\* while nothing is recorded throws and records nothing (and no other call throws).
C5_RecorderWellFormed ==
  /\ [](WellFormed(rec.r))
  /\ [][(rec'.last = "arcTo") =>
          /\ rec'.threw = (PenLen(rec.r) = 0)
          /\ rec'.threw => rec'.r = rec.r /\ PenLen(rec'.r) = 0]_vars
  /\ [][(rec'.last \in {"moveTo", "reset"}) => ~rec'.threw]_vars

\* a move has replaced a trailing bare move, after a first sub-path
C5_Witness ==
  /\ rec.phase = "record" /\ rec.last = "moveTo" /\ PenLen(rec.r) = 3
  /\ rec.r.turns = <<Null, Turn(2), Null>>
  /\ rec.r.xs = <<0, 20000, 5>>

C5_WitnessThrow ==
  rec.phase = "record" /\ rec.last = "arcTo" /\ rec.threw /\ PenLen(rec.r) = 0

\* C6: replaying a recorded path forward, r.path(r2, true), onto a fresh
\* RecordingPen r2 completes and leaves r2 holding the same operation
\* sequence as r: same points, same turns, same kinds, same order.
C6_ForwardReplayIdentical ==
  (rec.phase = "forward" /\ rec.doMove) =>
    /\ ~rec.threw
    /\ rec.r2 = rec.r
    /\ PenOps(rec.r2) = PenOps(rec.r)

\* two sub-paths, the first with a near-degenerate arc coerced to turn 0
C6_Witness ==
  /\ rec.phase = "forward" /\ rec.doMove
  /\ rec.r.turns = <<Null, Turn(0), Null, Turn(-1)>>
  /\ rec.r2.turns = <<Null, Turn(0), Null, Turn(-1)>>
  /\ rec.r2.xs = <<0, 0, 20000, 0>>

NegTurn(a) == IF a = Null THEN Null ELSE Turn(-a[1])
NoTrailingMove(pen) == PenLen(pen) = 0 \/ Last(pen.turns) # Null

\* r2 holds the points of r in reverse order, each segment with its turn negated
IsReversalOf(r2, r) ==
  LET n == PenLen(r)
  IN  /\ PenLen(r2) = n
      /\ \A k \in 1..n :
           /\ r2.xs[k] = r.xs[n + 1 - k]
           /\ r2.ys[k] = r.ys[n + 1 - k]
           /\ r2.turns[k] = IF k = 1 THEN Null ELSE NegTurn(r.turns[n + 2 - k])

\* C7: for a recorded path without a trailing bare move (several sub-paths
\* included), reversedPath(r2, true) followed by r2.reversedPath(r3, true)
\* reproduces the original operation sequence in r3, and the single reversed
\* replay r2 holds the points in reverse order with every turn negated.
C7_DoubleReversalIdentity ==
  (rec.phase = "reversed" /\ rec.doMove /\ NoTrailingMove(rec.r)) =>
    /\ ~rec.threw
    /\ rec.r3 = rec.r
    /\ IsReversalOf(rec.r2, rec.r)

C7_Witness ==
  /\ rec.phase = "reversed" /\ rec.doMove
  /\ rec.r.turns = <<Null, Turn(2), Null, Turn(-1)>>
  /\ rec.r.xs = <<0, 20000, 5, 20000>>
  /\ rec.r2.turns = <<Null, Turn(1), Null, Turn(-2)>>
  /\ rec.r2.xs = <<20000, 5, 20000, 0>>
  /\ rec.r3 = rec.r

(***************************************************************************)
(* Arc utilities (src/src/gearcutter/utils/arcUtils.ts)                    *)
(*                                                                         *)
(* Angles are integers counting quarter turns (PI/2), for which the sines  *)
(* the code takes are exact.                                               *)
(***************************************************************************)
\* Largest coordinate of an arc end point tried.
MaxArcCoord == 2

\* Math.sin(q * PI/2)
SinQ(q) == CASE q % 4 = 0 -> 0 [] q % 4 = 1 -> 1 [] q % 4 = 2 -> 0 [] OTHER -> -1
\* the square of Math.sin(q * PI/4)
SinSqEighth(q) == CASE q % 4 = 0 -> <<0, 1>> [] q % 4 = 2 -> <<1, 1>> [] OTHER -> RHalf

\* versine(theta): x = sin(theta * 0.5); 2.0 * x * x, for theta = q quarter turns
versine(q) == RMul(RInt(2), SinSqEighth(q))

\* pointFromForwardAndCrossFactors
pointFromForwardAndCrossFactors(x1, y1, x2, y2, ffac, cfac) ==
  LET dx == RSub(x2, x1)
      dy == RSub(y2, y1)
  IN  <<RSub(RAdd(x1, RMul(dx, ffac)), RMul(dy, cfac)),
        RAdd(RAdd(y1, RMul(dy, ffac)), RMul(dx, cfac))>>

\* interpolateArcTurn, for a turn of an even number of quarter turns (so that
\* halfturn is a whole number of them) whose half has a nonzero sine
interpolateArcTurn(x1, y1, x2, y2, turn, target_turn) ==
  LET halfturn == turn \div 2
      endy == RInt(SinQ(halfturn))
      endx == RNeg(versine(halfturn))
      midy == RInt(SinQ(target_turn - halfturn))
      midx == RNeg(versine(target_turn - halfturn))
      scale == RDiv(RHalf, endy)
      ffac == RMul(midy, scale)
      cfac == RMul(RSub(midx, endx), scale)
  IN  pointFromForwardAndCrossFactors(x1, y1, x2, y2, ffac, cfac)

\* Turns of PI and -PI, the turns below two full PI whose half-angle has an
\* exact sine and versine; target turns between 0 and the turn.
ArcTurns == {2, -2}
ArcTargets(turn) == IF turn > 0 THEN 0..turn ELSE turn..0
ArcCoords == (-1)..MaxArcCoord

ArcIdle ==
  [phase |-> "idle", x1 |-> 0, y1 |-> 0, x2 |-> 0, y2 |-> 0, turn |-> 0,
   target |-> 0, result |-> <<RInt(0), RInt(0)>>]

ArcInit == arc = ArcIdle

\* interpolateArcTurn(x1, y1, x2, y2, turn, target_turn) for two distinct points
InterpolateArcTurn ==
  /\ arc.phase = "idle"
  /\ \E x1 \in ArcCoords, y1 \in ArcCoords, x2 \in ArcCoords, y2 \in ArcCoords,
        turn \in ArcTurns :
       \E target \in ArcTargets(turn) :
         /\ <<x1, y1>> # <<x2, y2>>
         /\ arc' = [phase |-> "done", x1 |-> x1, y1 |-> y1, x2 |-> x2, y2 |-> y2,
                    turn |-> turn, target |-> target,
                    result |-> interpolateArcTurn(RInt(x1), RInt(y1), RInt(x2), RInt(y2),
                                                 turn, target)]
  /\ UNCHANGED <<gear, rec, clip, xf, draw, fil, pq, near, flip, cp, ccw, fs, gfs, shaper>>

ArcNext == InterpolateArcTurn

\* C8: for distinct points p1, p2 and a nonzero turn, interpolateArcTurn at
\* target turn 0 returns p1 and at target turn = turn returns p2.
C8_InterpolateEndpoints ==
  (arc.phase = "done") =>
    /\ arc.target = 0 => arc.result = <<RInt(arc.x1), RInt(arc.y1)>>
    /\ arc.target = arc.turn => arc.result = <<RInt(arc.x2), RInt(arc.y2)>>

(***************************************************************************)
(* CrappyClippingPen (src/unnamed/part_007)                                *)
(*                                                                         *)
(* Coordinates, the normal and the offset are exact rationals, turns are   *)
(* quarter turns.  The target is a pen that records the calls it gets and  *)
(* can be reset.                                                           *)
(***************************************************************************)
\* Longest input sent to a clipping pen.
MaxClipOps == 3

\* Constructor arguments <<nx, ny, minprod>>: normals of whole length
ClipArgs == {<<0, 1, 0>>, <<0, -2, 2>>, <<3, 4, 0>>, <<3, 4, 5>>}
ClipPoints == {<<0, 1>>, <<2, 1>>, <<1, 0>>, <<0, -1>>, <<2, -3>>}
ClipTurns == {-2, 0, 2}

\* Math.sqrt, of a perfect square
Sqrt(n) == CHOOSE m \in 0..n : m * m = n

RMoveCall(x, y) == [op |-> "moveTo", x |-> x, y |-> y, turn |-> 0]
RArcCall(x, y, t) == [op |-> "arcTo", x |-> x, y |-> y, turn |-> t]

\* x * this.nx + y * this.ny (first a variant with the components swapped)
ClipProdSwapped(c, x, y) == RAdd(RMul(x, c.ny), RMul(y, c.nx))
ClipProd(c, x, y) == RAdd(RMul(x, c.nx), RMul(y, c.ny))

\* `turn < 1e-6`, for a turn of a whole number of quarter turns
NearlyStraight(turn) == turn <= 0

\* searchForFloat(lo, hi, isLowerBound), over whole quarter turns: bisection to
\* two neighbouring values <<a, b>>, isLowerBound holding at the values kept as a.
\* floatBinarySearch.ts is not among the sources.
RECURSIVE searchForFloat(_, _, _)
searchForFloat(lo, hi, isLowerBound) ==
  IF hi - lo <= 1 THEN <<lo, hi>>
  ELSE LET mid == (lo + hi) \div 2
       IN  IF isLowerBound[mid] THEN searchForFloat(mid, hi, isLowerBound)
           ELSE searchForFloat(lo, mid, isLowerBound)

\* new CrappyClippingPen(target, nx, ny, minprod)
ClipNew(nx, ny, minprod) ==
  LET mag == RInt(Sqrt(nx * nx + ny * ny))
  IN  [phase |-> "built", nx0 |-> nx, ny0 |-> ny, minprod0 |-> minprod,
       nx |-> RDiv(RInt(nx), mag), ny |-> RDiv(RInt(ny), mag),
       minprod |-> RDiv(RInt(minprod), mag),
       tx |-> RInt(0), ty |-> RInt(0), havePoint |-> FALSE, isInside |-> FALSE,
       inp |-> <<>>, out |-> <<>>]

\* CrappyClippingPen.moveTo: the pen's fields and the target's calls afterwards
\* (first a variant that takes a point on the line to be inside)
ClipDoMoveToInclusive(c, x, y) ==
  LET inside == RLeq(c.minprod, ClipProd(c, x, y))
  IN  [c EXCEPT !.tx = x, !.ty = y, !.havePoint = TRUE, !.isInside = inside,
                !.out = IF inside THEN Append(c.out, RMoveCall(x, y))
                        ELSE c.out]
ClipDoMoveTo(c, x, y) ==
  LET inside == RLt(c.minprod, ClipProd(c, x, y))
  IN  [c EXCEPT !.tx = x, !.ty = y, !.havePoint = TRUE, !.isInside = inside,
                !.out = IF inside THEN Append(c.out, RMoveCall(x, y))
                        ELSE c.out]

\* The part of arcTo that cuts a segment crossing the line (lines 78-129):
\* the calls the target gets
ClipCut(c, x, y, turn, isInside) ==
  LET X == x
      Y == y
      TX == c.tx
      TY == c.ty
  IN  IF NearlyStraight(turn)
        THEN LET p0 == ClipProd(c, c.tx, c.ty)
                 p1 == ClipProd(c, x, y)
                 t == RDiv(RSub(c.minprod, p0), RSub(p1, p0))
                 mx == RAdd(TX, RMul(RSub(X, TX), t))
                 my == RAdd(TY, RMul(RSub(Y, TY), t))
             IN  IF isInside
                   THEN <<RMoveCall(mx, my)>> \o
                        (IF X # mx \/ Y # my THEN <<RArcCall(X, Y, 0)>> ELSE <<>>)
                 ELSE IF mx # TX \/ my # TY THEN <<RArcCall(mx, my, 0)>> ELSE <<>>
      ELSE IF isInside
        THEN LET below == [t \in 0..turn |->
                             LET m == interpolateArcTurn(c.tx, c.ty, x, y, turn, t)
                             IN  RLt(ClipProd(c, m[1], m[2]), c.minprod)]
                 midturn == searchForFloat(0, turn, below)[2]
                 m == interpolateArcTurn(c.tx, c.ty, x, y, turn, midturn)
             IN  <<RMoveCall(m[1], m[2])>> \o
                 (IF X # m[1] \/ Y # m[2] THEN <<RArcCall(X, Y, turn - midturn)>> ELSE <<>>)
      ELSE LET above == [t \in 0..turn |->
                           LET m == interpolateArcTurn(c.tx, c.ty, x, y, turn, t)
                           IN  RLeq(c.minprod, ClipProd(c, m[1], m[2]))]
               midTurn == searchForFloat(0, turn, above)[1]
               m == interpolateArcTurn(c.tx, c.ty, x, y, turn, midTurn)
           IN  IF m[1] # TX \/ m[2] # TY THEN <<RArcCall(m[1], m[2], midTurn)>> ELSE <<>>

\* CrappyClippingPen.arcTo
ClipDoArcTo(c, x, y, turn) ==
  IF ~c.havePoint THEN ClipDoMoveTo(c, x, y)
  ELSE LET wasInside == c.isInside
           isInside == IF wasInside THEN RLeq(c.minprod, ClipProd(c, x, y))
                       ELSE RLt(c.minprod, ClipProd(c, x, y))
       IN  IF wasInside = isInside
             THEN [c EXCEPT !.tx = x, !.ty = y, !.isInside = isInside,
                            !.out = IF wasInside
                                      THEN Append(c.out, RArcCall(x, y, turn))
                                    ELSE c.out]
           ELSE [c EXCEPT !.tx = x, !.ty = y, !.isInside = isInside,
                          !.out = c.out \o ClipCut(c, x, y, turn, isInside)]

\* CrappyClippingPen.reset (the target has a reset)
ClipDoReset(c) ==
  [c EXCEPT !.tx = RInt(0), !.ty = RInt(0), !.havePoint = FALSE, !.isInside = FALSE, !.out = <<>>]

ClipNone ==
  [phase |-> "none", nx0 |-> 0, ny0 |-> 0, minprod0 |-> 0,
   nx |-> RInt(0), ny |-> RInt(0), minprod |-> RInt(0),
   tx |-> RInt(0), ty |-> RInt(0), havePoint |-> FALSE, isInside |-> FALSE,
   inp |-> <<>>, out |-> <<>>]

ClipInit == clip = ClipNone

\* pen = new CrappyClippingPen(target, nx, ny, minprod)
ClipConstruct ==
  /\ clip.phase = "none"
  /\ \E a \in ClipArgs : clip' = ClipNew(a[1], a[2], a[3])
  /\ UNCHANGED <<gear, rec, arc, xf, draw, fil, pq, near, flip, cp, ccw, fs, gfs, shaper>>

\* pen.moveTo(x, y)
ClipMoveTo ==
  /\ clip.phase = "built" /\ Len(clip.inp) < MaxClipOps
  /\ \E pt \in ClipPoints :
       clip' = [ClipDoMoveTo(clip, RInt(pt[1]), RInt(pt[2])) EXCEPT
                  !.inp = Append(clip.inp, RMoveCall(RInt(pt[1]), RInt(pt[2])))]
  /\ UNCHANGED <<gear, rec, arc, xf, draw, fil, pq, near, flip, cp, ccw, fs, gfs, shaper>>

\* pen.arcTo(x, y, turn)
ClipArcTo ==
  /\ clip.phase = "built" /\ Len(clip.inp) < MaxClipOps
  /\ \E pt \in ClipPoints, t \in ClipTurns :
       clip' = [ClipDoArcTo(clip, RInt(pt[1]), RInt(pt[2]), t) EXCEPT
                  !.inp = Append(clip.inp, RArcCall(RInt(pt[1]), RInt(pt[2]), t))]
  /\ UNCHANGED <<gear, rec, arc, xf, draw, fil, pq, near, flip, cp, ccw, fs, gfs, shaper>>

\* pen.reset(): the input seen so far is forgotten with the target's path
ClipReset ==
  /\ clip.phase = "built" /\ clip.inp # <<>>
  /\ clip' = [ClipDoReset(clip) EXCEPT !.inp = <<>>]
  /\ UNCHANGED <<gear, rec, arc, xf, draw, fil, pq, near, flip, cp, ccw, fs, gfs, shaper>>

ClipNext ==
  \/ ClipConstruct
  \/ ClipMoveTo
  \/ ClipArcTo
  \/ ClipReset

\* x * nx + y * ny for the normal the pen was built with, before normalisation
RawProd(c, call) == call.x[1] * c.nx0 + call.y[1] * c.ny0
StartsWithMove(c) == c.inp # <<>> /\ c.inp[1].op = "moveTo"
AllStrictlyInside(c) == \A i \in 1..Len(c.inp) : RawProd(c, c.inp[i]) > c.minprod0
AllStrictlyOutside(c) == \A i \in 1..Len(c.inp) : RawProd(c, c.inp[i]) < c.minprod0

\* C9: for a path that starts with a moveTo, if every point lies strictly on
\* the keep side (x*nx + y*ny > minprod) the clipping pen forwards exactly the
\* same operations to its target; if every point lies strictly on the other
\* side the target receives nothing.
C9_ClipInsideUnchangedOutsideEmpty ==
  (clip.phase = "built" /\ StartsWithMove(clip)) =>
    /\ AllStrictlyInside(clip) => clip.out = clip.inp
    /\ AllStrictlyOutside(clip) => clip.out = <<>>

C9_Witness ==
  /\ clip.phase = "built" /\ clip.nx0 = 3 /\ clip.minprod0 = 5
  /\ Len(clip.inp) = 3 /\ StartsWithMove(clip) /\ AllStrictlyInside(clip)
  /\ clip.inp[2].op = "arcTo" /\ clip.inp[2].turn = 2
  /\ clip.inp[3].op = "arcTo" /\ clip.inp[3].turn = -2
  /\ clip.out = clip.inp

C9_WitnessOutside ==
  /\ clip.phase = "built" /\ clip.ny0 = -2
  /\ Len(clip.inp) = 3 /\ StartsWithMove(clip) /\ AllStrictlyOutside(clip)
  /\ clip.inp[3].op = "arcTo" /\ clip.inp[3].turn = 2
  /\ clip.out = <<>>

\* The target's call lies on the keep side of the pen's line
OnKeepSide(c, call) == RLeq(c.minprod, ClipProd(c, call.x, call.y))

\* C17: every point the clipping pen forwards to its target, in a moveTo or an
\* arcTo, lies on the keep side of the line (x*nx + y*ny >= minprod for the
\* normalised normal), for every input sequence of moveTo and arcTo.
C17_ForwardedPointsOnKeepSide ==
  clip.phase = "built" =>
    \A i \in 1..Len(clip.out) : OnKeepSide(clip, clip.out[i])

\* The same for input without left-turning arcs, whose crossings are cut by
\* linear interpolation (line 78)
C17_StraightCutsOnKeepSide ==
  (clip.phase = "built" /\ \A i \in 1..Len(clip.inp) : clip.inp[i].turn <= 0) =>
    \A i \in 1..Len(clip.out) : OnKeepSide(clip, clip.out[i])

\* The calls the target got in this step
ClipNewCalls == SubSeq(clip'.out, Len(clip.out) + 1, Len(clip'.out))

\* This step is an arcTo(x, y, turn), turn not 0, from a point on one side of
\* the line to a point on the other
ClipCurvedCrossing ==
  /\ clip.phase = "built" /\ clip'.phase = "built"
  /\ Len(clip'.inp) = Len(clip.inp) + 1
  /\ Last(clip'.inp).op = "arcTo" /\ Last(clip'.inp).turn # 0
  /\ clip.havePoint /\ clip'.isInside # clip.isInside

\* The calls of a cut at the crossing turn t: the point interpolateArcTurn
\* gives for t, and the kept part with its share of the turn
ClipCutAt(c, x, y, turn, t, entering) ==
  LET m == interpolateArcTurn(c.tx, c.ty, x, y, turn, t)
  IN  IF entering
        THEN <<RMoveCall(m[1], m[2])>> \o
             (IF x # m[1] \/ y # m[2] THEN <<RArcCall(x, y, turn - t)>> ELSE <<>>)
      ELSE IF m[1] # c.tx \/ m[2] # c.ty THEN <<RArcCall(m[1], m[2], t)>> ELSE <<>>

\* C18: when a curved segment (turn not 0, positive or negative) crosses the
\* line, the pen cuts it at a point interpolateArcTurn gives for some crossing
\* turn between 0 and the turn, and emits the kept part as an arc with the
\* corresponding part of the turn: turn - crossing turn when entering, the
\* crossing turn when leaving.
C18_CurvedCrossingCutOnArc ==
  [][ClipCurvedCrossing =>
       LET a == Last(clip'.inp)
       IN  \E t \in ArcTargets(a.turn) :
             ClipNewCalls = ClipCutAt(clip, a.x, a.y, a.turn, t, clip'.isInside)]_vars

\* The same for left-turning arcs only (turn > 0, the arcs line 78 lets through
\* to the search)
C18_LeftCrossingCutOnArc ==
  [][(ClipCurvedCrossing /\ Last(clip'.inp).turn > 0) =>
       LET a == Last(clip'.inp)
       IN  \E t \in ArcTargets(a.turn) :
             ClipNewCalls = ClipCutAt(clip, a.x, a.y, a.turn, t, clip'.isInside)]_vars

\* This step is a moveTo or an arcTo on the clipping pen
ClipDrawStep ==
  /\ clip.phase = "built" /\ clip'.phase = "built"
  /\ Len(clip'.inp) = Len(clip.inp) + 1

C26_WitnessBoundary ==
  /\ clip.phase = "built" /\ clip.nx0 = 0 /\ clip.ny0 = 1 /\ clip.minprod0 = 0
  /\ Len(clip.inp) = 3
  /\ clip.inp[1] = RMoveCall(RInt(1), RInt(0)) /\ clip.inp[2] = RMoveCall(RInt(0), RInt(1))
  /\ clip.inp[3] = RArcCall(RInt(1), RInt(0), 2)
  /\ clip.isInside /\ clip.out = <<clip.inp[2], clip.inp[3]>>

(***************************************************************************)
(* XForm and XFormPen (src/unnamed/part_008)                               *)
(*                                                                         *)
(* A function from pen to pen (prevTransform, a preprocess argument, the   *)
(* pen apply() builds) is the list of the pens it puts in front of its     *)
(* argument, outermost first: an operation sent to the result passes the   *)
(* layers in list order and then reaches the target.  `undefined` is the   *)
(* empty list.  A layer is an XFormPen, a CrappyClippingPen or a stage     *)
(* that forwards every operation unchanged and leaves its name on it.      *)
(* Rotations are whole multiples of 90 degrees, where getXProjection is    *)
(* exact.                                                                  *)
(***************************************************************************)
\* Most builder calls made on one XForm.
MaxXfCalls == 4

Sign(n) == IF n > 0 THEN 1 ELSE IF n < 0 THEN -1 ELSE 0
\* Math.cos(q * PI/2)
CosQ(q) == SinQ(q + 1)
Reverse(sq) == [i \in 1..Len(sq) |-> sq[Len(sq) + 1 - i]]

\* new XForm()
NewXForm ==
  [prevTransform |-> <<>>, rotDegrees |-> 0, scaleFactor |-> RInt(1),
   flipYinFac |-> 1, tx |-> RInt(0), ty |-> RInt(0)]

\* XForm.getXProjection, for rotDegrees a multiple of 90
getXProjection(X) ==
  LET quarters == X.rotDegrees \div 90
      xx == IF quarters % 2 = 0 THEN Sign(CosQ(quarters)) ELSE 0
      xy == IF quarters % 2 = 0 THEN 0 ELSE Sign(SinQ(quarters))
  IN  <<RMul(RInt(xx), X.scaleFactor), RMul(RInt(xy), X.scaleFactor)>>

\* XForm.rotate (first a variant that leaves the sum as it is)
XRotateRaw(X, degrees) ==
  [X EXCEPT !.rotDegrees = X.rotDegrees + degrees * X.flipYinFac]
XRotate(X, degrees) ==
  [X EXCEPT !.rotDegrees = (X.rotDegrees + degrees * X.flipYinFac) % 360]

\* XForm.translate
XTranslate(X, x, y) ==
  LET xp == getXProjection(X)
      fy == RMul(y, RInt(X.flipYinFac))
  IN  [X EXCEPT !.tx = RSub(RAdd(X.tx, RMul(x, xp[1])), RMul(fy, xp[2])),
                !.ty = RAdd(RAdd(X.ty, RMul(x, xp[2])), RMul(fy, xp[1]))]

\* XForm.scale
XScale(X, fac, flipY) ==
  LET r == IF RLt(fac, RInt(0))
             THEN [XRotate(X, 180) EXCEPT !.scaleFactor = RMul(X.scaleFactor, RNeg(fac))]
           ELSE [X EXCEPT !.scaleFactor = RMul(X.scaleFactor, fac)]
  IN  IF flipY THEN [r EXCEPT !.flipYinFac = -r.flipYinFac] ELSE r

XFormLayer(X) ==
  LET xp == getXProjection(X)
  IN  [kind |-> "xform", id |-> "xform",
       a |-> <<xp[1], xp[2], X.tx, X.ty, RInt(X.flipYinFac)>>]
StageLayer(id) == [kind |-> "stage", id |-> id, a |-> <<>>]
ClipLayer(nx, ny, minprod) == [kind |-> "clip", id |-> "clip", a |-> <<nx, ny, minprod>>]

\* (pen) => p2(p1(pen)): p2's pens come to stand in front of p1's
\* (first a variant that nests them the other way round, p1(p2(pen)))
ComposeSwapped(p2, p1) == p1 \o p2
Compose(p2, p1) == p2 \o p1

\* XForm.apply, as the function target |-> pen it amounts to
XApply(X) == Compose(<<XFormLayer(X)>>, X.prevTransform)

XIsIdentity(X) ==
  /\ X.rotDegrees = 0 /\ X.flipYinFac = 1 /\ X.scaleFactor = RInt(1)
  /\ X.tx = RInt(0) /\ X.ty = RInt(0)

\* XForm.processInput (first a variant whose fold applies the scale and the
\* rotation before the translation)
XProcessInputScaleFirst(X, preprocess) ==
  IF XIsIdentity(X)
    THEN [X EXCEPT !.prevTransform =
            IF X.prevTransform # <<>> THEN Compose(preprocess, X.prevTransform)
            ELSE preprocess]
  ELSE LET p0 == [NewXForm EXCEPT !.prevTransform = X.prevTransform]
           p1 == XScale(p0, X.scaleFactor, X.flipYinFac # 1)
           p2 == XRotate(p1, X.rotDegrees)
           prevX == XTranslate(p2, X.tx, X.ty)
       IN  [NewXForm EXCEPT !.prevTransform = Compose(preprocess, XApply(prevX))]
XProcessInput(X, preprocess) ==
  IF XIsIdentity(X)
    THEN [X EXCEPT !.prevTransform =
            IF X.prevTransform # <<>> THEN Compose(preprocess, X.prevTransform)
            ELSE preprocess]
  ELSE LET p0 == [NewXForm EXCEPT !.prevTransform = X.prevTransform]
           p1 == XTranslate(p0, X.tx, X.ty)
           p2 == XRotate(p1, X.rotDegrees)
           prevX == XScale(p2, X.scaleFactor, X.flipYinFac # 1)
       IN  [NewXForm EXCEPT !.prevTransform = Compose(preprocess, XApply(prevX))]

\* XForm.clip
XClip(X, nx, ny, minprod) == XProcessInput(X, <<ClipLayer(nx, ny, minprod)>>)

\* XForm.xformInput
xformInput(X, xform) ==
  LET x1 == IF xform.prevTransform # <<>> THEN XProcessInput(X, xform.prevTransform)
            ELSE X
      x2 == XTranslate(x1, xform.tx, xform.ty)
      x3 == XRotate(x2, xform.rotDegrees)
  IN  XScale(x3, xform.scaleFactor, xform.flipYinFac < 0)

\* A call on its way through the pens, with the names of those it has passed
VCall(c, via) == [op |-> c.op, x |-> c.x, y |-> c.y, turn |-> c.turn, via |-> via]

\* The fields a layer's pen starts with
LayerInit(layer) ==
  IF layer.kind = "clip" THEN ClipNew(layer.a[1], layer.a[2], layer.a[3]) ELSE ClipNone

\* XFormPen.moveTo / arcTo with transformPoint and transformTurn as apply()
\* builds them from a = <<xx, xy, tx, ty, flipYinFac>>: the call on the delegate
XFormPenCall(a, c) ==
  LET fy == RMul(c.y, a[5])
      newX == RSub(RAdd(a[3], RMul(c.x, a[1])), RMul(fy, a[2]))
      newY == RAdd(RAdd(a[4], RMul(c.x, a[2])), RMul(fy, a[1]))
  IN  IF c.op = "moveTo" THEN RMoveCall(newX, newY)
      ELSE RArcCall(newX, newY, c.turn * a[5][1])

\* One call arriving at one pen: the pen's fields afterwards and the calls it
\* makes on its delegate (XFormPen.moveTo / arcTo, a stage, the clipping pen)
LayerCall(layer, st, c) ==
  CASE layer.kind = "xform" ->
         [st |-> st,
          out |-> <<VCall(XFormPenCall(layer.a, c), Append(c.via, layer.id))>>]
    [] layer.kind = "stage" ->
         [st |-> st, out |-> <<VCall(c, Append(c.via, layer.id))>>]
    [] OTHER ->
         LET c0 == [st EXCEPT !.out = <<>>]
             c1 == IF c.op = "moveTo" THEN ClipDoMoveTo(c0, c.x, c.y)
                   ELSE ClipDoArcTo(c0, c.x, c.y, c.turn)
         IN  [st |-> c1,
              out |-> [i \in 1..Len(c1.out) |-> VCall(c1.out[i], Append(c.via, layer.id))]]

\* A list of calls arriving at one pen, one after the other
RECURSIVE LayerRun(_, _, _, _, _)
LayerRun(layer, st, calls, i, acc) ==
  IF i > Len(calls) THEN [st |-> st, out |-> acc]
  ELSE LET r == LayerCall(layer, st, calls[i])
       IN  LayerRun(layer, r.st, calls, i + 1, acc \o r.out)

\* A list of calls sent to the pen built from `layers`: what reaches the target
RECURSIVE Feed(_, _, _)
Feed(layers, k, calls) ==
  IF k > Len(layers) THEN calls
  ELSE Feed(layers, k + 1, LayerRun(layers[k], LayerInit(layers[k]), calls, 1, <<>>).out)

\* XForm.processPath(pen, path, doMove), for a path that makes the calls given:
\* the calls the target pen gets
processPath(X, calls) ==
  Feed(XApply(X), 1, [i \in 1..Len(calls) |-> VCall(calls[i], <<>>)])

\* XForm.processPath for a transform without stages (prevTransform undefined):
\* apply() is the one XFormPen in front of the target
processPathPlain(X, calls) ==
  [i \in 1..Len(calls) |-> XFormPenCall(XFormLayer(X).a, calls[i])]

XfRotations == {-90, 180}
XfTranslations == {<<1, 2>>}
XfScales == {<<2, FALSE>>, <<-1, TRUE>>}
XfStages == {"s1", "s2"}
XfClips == {<<0, 1, 0>>}
\* The transforms handed to xformInput: new XForm().rotate(90).scale(-2, true)
\* and new XForm().processInput(s3).translate(1, 0)
XfInputs ==
  {XScale(XRotate(NewXForm, 90), RInt(-2), TRUE),
   XTranslate(XProcessInput(NewXForm, <<StageLayer("s3")>>), RInt(1), RInt(0))}
XfPaths ==
  {<<RMoveCall(RInt(1), RInt(1)), RArcCall(RInt(3), RInt(1), 0),
     RArcCall(RInt(3), RInt(-2), 2), RArcCall(RInt(1), RInt(1), -2)>>,
   <<RMoveCall(RInt(0), RInt(-1)), RArcCall(RInt(2), RInt(3), 0)>>}

XfFresh ==
  [phase |-> "build", x |-> NewXForm, ncalls |-> 0, queued |-> <<>>,
   sent |-> <<>>, got |-> <<>>]

XfInit == xf = XfFresh

XfCanBuild == xf.phase = "build" /\ xf.ncalls < MaxXfCalls
Queued(id) == \E i \in 1..Len(xf.queued) : xf.queued[i] = id

\* x.rotate(degrees)
XfRotate ==
  /\ XfCanBuild
  /\ \E d \in XfRotations :
       xf' = [xf EXCEPT !.x = XRotate(xf.x, d), !.ncalls = xf.ncalls + 1]
  /\ UNCHANGED <<gear, rec, arc, clip, draw, fil, pq, near, flip, cp, ccw, fs, gfs, shaper>>

\* x.translate(x, y)
XfTranslate ==
  /\ XfCanBuild
  /\ \E t \in XfTranslations :
       xf' = [xf EXCEPT !.x = XTranslate(xf.x, RInt(t[1]), RInt(t[2])),
                        !.ncalls = xf.ncalls + 1]
  /\ UNCHANGED <<gear, rec, arc, clip, draw, fil, pq, near, flip, cp, ccw, fs, gfs, shaper>>

\* x.scale(fac, flipY)
XfScale ==
  /\ XfCanBuild
  /\ \E f \in XfScales :
       xf' = [xf EXCEPT !.x = XScale(xf.x, RInt(f[1]), f[2]), !.ncalls = xf.ncalls + 1]
  /\ UNCHANGED <<gear, rec, arc, clip, draw, fil, pq, near, flip, cp, ccw, fs, gfs, shaper>>

\* x.processInput((pen) => stage pen named id)
XfProcessInput ==
  /\ XfCanBuild
  /\ \E id \in XfStages :
       /\ ~Queued(id)
       /\ xf' = [xf EXCEPT !.x = XProcessInput(xf.x, <<StageLayer(id)>>),
                           !.ncalls = xf.ncalls + 1, !.queued = Append(xf.queued, id)]
  /\ UNCHANGED <<gear, rec, arc, clip, draw, fil, pq, near, flip, cp, ccw, fs, gfs, shaper>>

\* x.clip(nx, ny, minprod)
XfClip ==
  /\ XfCanBuild
  /\ ~Queued("clip")
  /\ \E a \in XfClips :
       xf' = [xf EXCEPT !.x = XClip(xf.x, a[1], a[2], a[3]),
                        !.ncalls = xf.ncalls + 1, !.queued = Append(xf.queued, "clip")]
  /\ UNCHANGED <<gear, rec, arc, clip, draw, fil, pq, near, flip, cp, ccw, fs, gfs, shaper>>

\* x.xformInput(xform)
XfXformInput ==
  /\ XfCanBuild
  /\ \E xform \in XfInputs :
       xf' = [xf EXCEPT !.x = xformInput(xf.x, xform), !.ncalls = xf.ncalls + 1,
                        !.queued = xf.queued \o
                          [i \in 1..Len(xform.prevTransform) |-> xform.prevTransform[i].id]]
  /\ UNCHANGED <<gear, rec, arc, clip, draw, fil, pq, near, flip, cp, ccw, fs, gfs, shaper>>

\* x.processPath(target, path, true)
XfProcessPath ==
  /\ xf.phase = "build"
  /\ \E calls \in XfPaths :
       xf' = [xf EXCEPT !.phase = "drawn", !.sent = calls,
                        !.got = processPath(xf.x, calls)]
  /\ UNCHANGED <<gear, rec, arc, clip, draw, fil, pq, near, flip, cp, ccw, fs, gfs, shaper>>

XfNext ==
  \/ XfRotate
  \/ XfTranslate
  \/ XfScale
  \/ XfProcessInput
  \/ XfClip
  \/ XfXformInput
  \/ XfProcessPath

\* the stages (and clipping pens) among the pens a call has passed, in order
StagesPassed(via) == SelectSeq(via, LAMBDA id : id # "xform")

\* C10 as stated: every operation that reaches the target was first mapped by
\* the XFormPen and then passed the queued stages in insertion order.
C10_StagesInInsertionOrder ==
  (xf.phase = "drawn") =>
    \A i \in 1..Len(xf.got) :
      /\ xf.got[i].via[1] = "xform"
      /\ StagesPassed(xf.got[i].via) = xf.queued

\* C10, amended: every operation that reaches the target was first mapped by
\* the XFormPen apply() builds and then passed the queued stages in reverse
\* insertion order: the stage queued last processes it first.
C10_StagesInReverseInsertionOrder ==
  (xf.phase = "drawn") =>
    \A i \in 1..Len(xf.got) :
      /\ xf.got[i].via[1] = "xform"
      /\ StagesPassed(xf.got[i].via) = Reverse(xf.queued)

C10_Witness ==
  /\ xf.phase = "drawn" /\ xf.queued = <<"s1", "s2">> /\ xf.ncalls = 4
  /\ Len(xf.got) = 2
  /\ xf.got[1].via = <<"xform", "s2", "xform", "s1", "xform">>
  /\ xf.got[2].op = "arcTo"

\* C15: whatever rotate, translate, scale, clip, processInput and xformInput
\* calls were made, the stored rotation is in [0, 360), the stored scale
\* factor is not negative and the flip factor is 1 or -1.
C15_ScalarsNormalised ==
  /\ xf.x.rotDegrees >= 0 /\ xf.x.rotDegrees < 360
  /\ RLeq(RInt(0), xf.x.scaleFactor)
  /\ xf.x.flipYinFac \in {1, -1}

\* after rotate(-90) and scale(-1, true): 270 + 180 wraps to 90
C15_Witness ==
  /\ xf.phase = "build" /\ xf.ncalls = 2 /\ xf.queued = <<>>
  /\ xf.x.rotDegrees = 90 /\ xf.x.scaleFactor = RInt(1) /\ xf.x.flipYinFac = -1
  /\ xf.x.tx = RInt(0) /\ xf.x.ty = RInt(0)

\* The calls the target gets, without the record of the pens they passed
Ops(calls) ==
  [i \in 1..Len(calls) |->
     [op |-> calls[i].op, x |-> calls[i].x, y |-> calls[i].y, turn |-> calls[i].turn]]

\* This step is processInput with a stage that forwards the calls unchanged,
\* on a transform whose scalars are not the identity
XfFoldStep ==
  /\ xf.phase = "build" /\ xf'.phase = "build"
  /\ Len(xf'.queued) = Len(xf.queued) + 1
  /\ Last(xf'.queued) \in XfStages
  /\ ~XIsIdentity(xf.x)

\* C20: processInput on an XForm whose scalars are not the identity resets
\* rotation to 0, scale to 1, flip to +1 and translation to (0,0), and folds
\* the previous scalars and stages into one upstream stage with the same
\* affine map and turn sign: with a stage that forwards the calls unchanged,
\* the calls reaching the target after apply() are the same as before.
C20_FoldKeepsOutput ==
  [][XfFoldStep =>
       /\ XIsIdentity(xf'.x)
       /\ xf'.x.prevTransform =
            <<StageLayer(Last(xf'.queued)), XFormLayer(xf.x)>> \o xf.x.prevTransform
       /\ \A calls \in XfPaths :
            Ops(processPath(xf'.x, calls)) = Ops(processPath(xf.x, calls))]_vars

\* after translate(1, 2), scale(-1, true), processInput(s1): the scalars are
\* reset and the half turn, the flip and the translation sit in the fold
C20_Witness ==
  /\ xf.phase = "build" /\ xf.ncalls = 3 /\ xf.queued = <<"s1">>
  /\ XIsIdentity(xf.x)
  /\ Len(xf.x.prevTransform) = 2
  /\ xf.x.prevTransform[1] = StageLayer("s1")
  /\ xf.x.prevTransform[2].kind = "xform"
  /\ xf.x.prevTransform[2].a = <<RInt(-1), RInt(0), RInt(1), RInt(2), RInt(-1)>>

(***************************************************************************)
(* drawGearFromTooth, GearCutterPenAdapter (src/gearcutter/index.ts) and   *)
(* LastPointCapturePen                                                     *)
(*                                                                         *)
(* The tooth is a RecordingPen holding one continuous boundary: one move   *)
(* and the arcs after it, as ToothCutter.drawToothPath records it.  The    *)
(* tooth counts drawn are those whose step 360/N is a multiple of 90       *)
(* degrees, where the rotation is exact.                                   *)
(***************************************************************************)
\* Most arcs of a recorded tooth.
MaxToothArcs == 2

DrawTeeth == {1, 2, 4}
DrawScales == {RInt(1), Rat(3, 2)}
ToothArcs == RecPoints \X RecTurns
ToothCalls ==
  {<<MoveCall(p[1], p[2])>> \o
     [i \in 1..Len(as) |-> ArcCall(as[i][1][1], as[i][1][2], as[i][2])] :
     p \in RecPoints, as \in UNION {[1..n -> ToothArcs] : n \in 1..MaxToothArcs}}
\* The recorders ToothCutter.drawToothPath leaves behind
ToothPens ==
  {r \in {Play(cs, NewPen).pen : cs \in ToothCalls} : PenLen(r) >= 2}

\* RecordingPen.countSegments
countSegments(pen) == Cardinality({i \in 1..PenLen(pen) : pen.turns[i] # Null})

\* The calls pen.path(_, doMove) makes, as calls with real coordinates
PathCalls(pen, doMove) ==
  LET cs == path(pen, doMove)
  IN  [i \in 1..Len(cs) |->
        IF cs[i].op = "moveTo" THEN RMoveCall(RInt(cs[i].x), RInt(cs[i].y))
        ELSE RArcCall(RInt(cs[i].x), RInt(cs[i].y), cs[i].turn)]

\* LastPointCapturePen after the calls given: its x and y (Null if never set)
CaptureLast(calls) ==
  IF calls = <<>> THEN [x |-> Null, y |-> Null]
  ELSE [x |-> <<Last(calls).x>>, y |-> <<Last(calls).y>>]

\* LastPointCapturePen.transferMove: the calls it makes on the target
transferMove(capture) ==
  IF capture.x # Null /\ capture.y # Null
    THEN <<RMoveCall(capture.x[1], capture.y[1])>>
  ELSE <<>>

\* GearCutterPenAdapter.moveTo / arcTo: the call made on the Pen2D
\* (a turn of t quarter turns is 90 t degrees)
AdapterCall(c) ==
  IF c.op = "moveTo" THEN [op |-> "move", x |-> c.x, y |-> c.y, degrees |-> 0]
  ELSE IF c.turn = 0 THEN [op |-> "line", x |-> c.x, y |-> c.y, degrees |-> 0]
  ELSE [op |-> "arc", x |-> c.x, y |-> c.y, degrees |-> 90 * c.turn]
Adapter(calls) == [i \in 1..Len(calls) |-> AdapterCall(calls[i])]

\* ((nTeeth - 1) * 360) / nTeeth, the rotation of the capture pass
\* (first a variant that captures the unrotated tooth)
CaptureRotationNone(nTeeth) == 0
CaptureRotation(nTeeth) == ((nTeeth - 1) * 360) \div nTeeth

\* new XForm().rotate(degrees).scale(scale)
ToothXForm(degrees, scale) == XScale(XRotate(NewXForm, degrees), scale, FALSE)

\* The loop of drawGearFromTooth from copy i on: the calls made on pen
RECURSIVE DrawCopies(_, _, _, _)
DrawCopies(i, scale, tooth, nTeeth) ==
  IF i >= nTeeth THEN <<>>
  ELSE processPathPlain(ToothXForm((i * 360) \div nTeeth, scale), PathCalls(tooth, FALSE))
         \o DrawCopies(i + 1, scale, tooth, nTeeth)

\* drawGearFromTooth(new GearCutterPenAdapter(pen), doMove, scale, path, nTeeth):
\* the calls pen gets
drawGearFromTooth(doMove, scale, tooth, nTeeth) ==
  LET seen == processPathPlain(ToothXForm(CaptureRotation(nTeeth), scale),
                               PathCalls(tooth, TRUE))
      move == IF doMove THEN transferMove(CaptureLast(seen)) ELSE <<>>
  IN  Adapter(move \o DrawCopies(0, scale, tooth, nTeeth))

DrawIdle ==
  [phase |-> "idle", tooth |-> NewPen, nTeeth |-> 0, scale |-> RInt(1), out |-> <<>>]
DrawInit == draw = DrawIdle

\* sketch(pen), for a sketch returned by createGearPair
DrawSketch ==
  /\ draw.phase = "idle"
  /\ \E tooth \in ToothPens, n \in DrawTeeth, scale \in DrawScales :
       draw' = [phase |-> "drawn", tooth |-> tooth, nTeeth |-> n, scale |-> scale,
                out |-> drawGearFromTooth(TRUE, scale, tooth, n)]
  /\ UNCHANGED <<gear, rec, arc, clip, xf, fil, pq, near, flip, cp, ccw, fs, gfs, shaper>>

DrawNext == DrawSketch

\* The point (x, y) rotated by q quarter turns to the left and scaled by s
RECURSIVE RotScale(_, _, _, _)
RotScale(x, y, q, s) ==
  IF q = 0 THEN <<RMul(s, x), RMul(s, y)>>
  ELSE RotScale(RNeg(y), x, q - 1, s)

\* C11: a sketch emits one move, first, then nTeeth copies of the tooth's
\* arcs, copy i rotated by i * 360 / nTeeth degrees and scaled, no other
\* move, and ends on the point of the move.
C11_SketchIsOneClosedPath ==
  (draw.phase = "drawn") =>
    LET k == countSegments(draw.tooth)
        n == draw.nTeeth
        out == draw.out
        arcs == PathCalls(draw.tooth, FALSE)
    IN  /\ Len(out) = 1 + n * k
        /\ out[1].op = "move"
        /\ \A j \in 2..Len(out) : out[j].op # "move"
        /\ \A i \in 0..(n - 1) : \A j \in 1..k :
             LET o == out[1 + i * k + j]
                 p == RotScale(arcs[j].x, arcs[j].y, (i * 4) \div n, draw.scale)
             IN  /\ <<o.x, o.y>> = p
                 /\ o.degrees = 90 * arcs[j].turn
                 /\ (o.op = "line") = (arcs[j].turn = 0)
        /\ <<Last(out).x, Last(out).y>> = <<out[1].x, out[1].y>>

C11_Witness ==
  /\ draw.phase = "drawn" /\ draw.nTeeth = 4 /\ draw.scale = Rat(3, 2)
  /\ countSegments(draw.tooth) = 2 /\ Len(draw.out) = 9
  /\ draw.out[1].op = "move" /\ draw.out[2].op = "arc" /\ draw.out[3].op = "line"
  /\ <<draw.out[1].x, draw.out[1].y>> # <<draw.out[3].x, draw.out[3].y>>

(***************************************************************************)
(* InitialMaxFilletPen and InitialMaxInsideFilletPen (src/unnamed/part_005)*)
(*                                                                         *)
(* Directions and turns are rationals in quarter turns (1 = PI/2).  The    *)
(* pens are driven with turns of whole quarter turns along chords in the   *)
(* eight compass directions, from a start on the positive x axis, so that  *)
(* every direction is a multiple of PI/4 and every number the pens compute *)
(* is of the form a + b*sqrt(2) + h*T with a, b, h rational, T standing    *)
(* for Math.tan(Math.PI/2) (about 1.6e16).  Such a number is <<a, b, h>>.  *)
(* A number r + e*EPS, EPS = 0.5/T, is the pair <<r, e>>.                  *)
(***************************************************************************)
SNum(a, b, h) == <<a, b, h>>
SRat(r) == <<r, RInt(0), RInt(0)>>
SAdd(u, v) == <<RAdd(u[1], v[1]), RAdd(u[2], v[2]), RAdd(u[3], v[3])>>
SNeg(u) == <<RNeg(u[1]), RNeg(u[2]), RNeg(u[3])>>
SSub(u, v) == SAdd(u, SNeg(v))
\* u * v, where T meets neither sqrt(2) nor T
SMul(u, v) ==
  <<RAdd(RMul(u[1], v[1]), RMul(RInt(2), RMul(u[2], v[2]))),
    RAdd(RMul(u[1], v[2]), RMul(u[2], v[1])),
    RAdd(RMul(u[1], v[3]), RMul(u[3], v[1]))>>
\* u / v for v = a + b*sqrt(2), not zero
SDiv(u, v) ==
  LET n == RSub(RMul(v[1], v[1]), RMul(RInt(2), RMul(v[2], v[2])))
      c == <<RDiv(v[1], n), RNeg(RDiv(v[2], n)), RInt(0)>>
  IN  SMul(u, c)

\* Math.sin(k * PI/4)
SinE(k) ==
  LET m == k % 8
      r2 == SNum(RInt(0), RHalf, RInt(0))
  IN  CASE m = 0 \/ m = 4 -> SRat(RInt(0))
        [] m = 1 \/ m = 3 -> r2
        [] m = 2 -> SRat(RInt(1))
        [] m = 5 \/ m = 7 -> SNeg(r2)
        [] m = 6 -> SRat(RInt(-1))
\* versine(k * PI/4) = 1 - cos(k * PI/4)
versineE(k) == SSub(SRat(RInt(1)), SinE(k + 2))

\* Math.tan(k * PI/8), -7 <= k <= 7
TanE(k) ==
  LET a == Abs(k)
      t == CASE a = 0 -> SRat(RInt(0))
             [] a = 1 -> SNum(RInt(-1), RInt(1), RInt(0))
             [] a = 2 -> SRat(RInt(1))
             [] a = 3 -> SNum(RInt(1), RInt(1), RInt(0))
             [] a = 4 -> SNum(RInt(0), RInt(0), RInt(1))
             [] a = 5 -> SNum(RInt(-1), RInt(-1), RInt(0))
             [] a = 6 -> SRat(RInt(-1))
             [] a = 7 -> SNum(RInt(1), RInt(-1), RInt(0))
  IN  IF k < 0 THEN SNeg(t) ELSE t

\* A direction d, a multiple of 1/2 quarter turn, in units of PI/4
Eighths(d) == (2 * d[1]) \div d[2]

\* bulgeFactor(turn) = tan(turn / 4) * -0.5, for turn a whole number d of
\* quarter turns
bulgeFactor(d) == SMul(TanE(d[1] \div d[2]), SRat(Rat(-1, 2)))

\* pointFromForwardAndCrossFactors, with factors a + b*sqrt(2)
pointFromFactorsE(x1, y1, x2, y2, ffac, cfac) ==
  LET dx == SRat(RSub(x2, x1))
      dy == SRat(RSub(y2, y1))
  IN  <<SSub(SAdd(SRat(x1), SMul(dx, ffac)), SMul(dy, cfac)),
        SAdd(SAdd(SRat(y1), SMul(dy, ffac)), SMul(dx, cfac))>>

\* interpolateArcTurn, for turn a whole number of quarter turns (not 0 or a
\* multiple of 4) and target_turn a rational direction, a multiple of PI/4
interpolateArcTurnE(x1, y1, x2, y2, turn, target_turn) ==
  LET halfE == turn
      endy == SinE(halfE)
      endx == SNeg(versineE(halfE))
      midE == Eighths(target_turn) - halfE
      midy == SinE(midE)
      midx == SNeg(versineE(midE))
      scale == SDiv(SRat(RHalf), endy)
      ffac == SMul(midy, scale)
      cfac == SMul(SSub(midx, endx), scale)
  IN  pointFromFactorsE(x1, y1, x2, y2, ffac, cfac)

\* A chord the pens can measure exactly: along an axis or a diagonal
OnCompass(dx, dy) ==
  dx = RInt(0) \/ dy = RInt(0) \/ Abs(dx[1]) * dy[2] = Abs(dy[1]) * dx[2]

\* angleFromTo, in quarter turns, for vectors a multiple of PI/4 apart
angleFromTo(fromx, fromy, tox, toy) ==
  LET cross == RSub(RMul(fromx, toy), RMul(fromy, tox))
      dot == RAdd(RMul(fromx, tox), RMul(fromy, toy))
      z == RInt(0)
  IN  CASE cross = z -> IF RLt(dot, z) THEN RInt(2) ELSE z
        [] dot = z -> IF RLt(z, cross) THEN RInt(1) ELSE RInt(-1)
        [] RLt(z, cross) /\ RLt(z, dot) -> Rat(1, 2)
        [] RLt(z, cross) /\ RLt(dot, z) -> Rat(3, 2)
        [] RLt(cross, z) /\ RLt(z, dot) -> Rat(-1, 2)
        [] RLt(cross, z) /\ RLt(dot, z) -> Rat(-3, 2)

\* centerDistanceFactor(turn) = 0.5 / tan(turn / 2) for turn = -2, -1, 1, 2
\* quarter turns, as <<r, e>>
centerDistanceFactor(turn) ==
  CASE turn = 1 -> <<RHalf, RInt(0)>>
    [] turn = -1 -> <<RNeg(RHalf), RInt(0)>>
    [] turn = 2 -> <<RInt(0), RInt(1)>>
    [] turn = -2 -> <<RInt(0), RInt(-1)>>

\* arcCenter (pointFromCrossFactor), each coordinate as <<r, e>>
arcCenter(x1, y1, x2, y2, turn) ==
  LET dx == RSub(x2, x1)
      dy == RSub(y2, y1)
      cf == centerDistanceFactor(turn)
  IN  <<<<RSub(RAdd(x1, RMul(dx, RHalf)), RMul(dy, cf[1])), RNeg(RMul(dy, cf[2]))>>,
        <<RAdd(RAdd(y1, RMul(dy, RHalf)), RMul(dx, cf[1])), RMul(dx, cf[2])>>>>

\* angleFromTo(fromx, fromy, cx, cy) > 0 for a centre given as above:
\* the cross product is positive, or it is zero and the dot product negative
CentreToTheLeft(fromx, fromy, c) ==
  LET crossR == RSub(RMul(fromx, c[2][1]), RMul(fromy, c[1][1]))
      crossE == RSub(RMul(fromx, c[2][2]), RMul(fromy, c[1][2]))
      dotR == RAdd(RMul(fromx, c[1][1]), RMul(fromy, c[2][1]))
      dotE == RAdd(RMul(fromx, c[1][2]), RMul(fromy, c[2][2]))
      z == RInt(0)
      Pos(r, e) == RLt(z, r) \/ (r = z /\ RLt(z, e))
      Neg(r, e) == RLt(r, z) \/ (r = z /\ RLt(e, z))
  IN  Pos(crossR, crossE) \/ (crossR = z /\ crossE = z /\ Neg(dotR, dotE))

\* Math.PI * 0.125, Math.PI * 0.1 and 0.1 radians, in quarter turns (the last
\* is about 0.0637; the directions compared are multiples of 1/2, for which
\* any value strictly between 0 and 1/2 decides alike)
EighthPi == Rat(1, 4)
TenthPi == Rat(1, 5)
TenthRadian == Rat(1, 16)

FilZero == SRat(RInt(0))
FResetCall == [op |-> "reset", x |-> FilZero, y |-> FilZero, turn |-> RInt(0)]
FMoveCall(x, y) == [op |-> "moveTo", x |-> x, y |-> y, turn |-> RInt(0)]
FArcCall(x, y, turn) == [op |-> "arcTo", x |-> x, y |-> y, turn |-> turn]

\* The fields of a fillet pen after construction; fromStartDir is
\* outFromStartDir of InitialMaxFilletPen, inFromStartDir of the inside pen
NewFilletPen(kind) ==
  [kind |-> kind, haveStart |-> FALSE, haveArcs |-> FALSE, isDone |-> FALSE,
   qualified |-> FALSE, snx |-> RInt(0), sny |-> RInt(0), tx |-> RInt(0),
   ty |-> RInt(0), tdir |-> RInt(0), fromStartDir |-> RInt(0),
   startDirection |-> RInt(0)]

\* reset(): the fields afterwards (the target is reset first)
FilletReset(p) ==
  [p EXCEPT !.haveStart = FALSE, !.haveArcs = FALSE, !.isDone = FALSE,
            !.qualified = FALSE]

\* setStart(x, y), for a point with whole coordinates at a whole distance
setStart(p, x, y) ==
  LET mag == RInt(Sqrt(x[1] * x[1] + y[1] * y[1]))
      snx == RDiv(x, mag)
      sny == RDiv(y, mag)
      outFromStartDir == angleFromTo(RNeg(sny), snx, x, y)
      startDirection == RAdd(outFromStartDir, RInt(1))
  IN  [p EXCEPT !.haveStart = TRUE, !.tx = x, !.ty = y, !.snx = snx, !.sny = sny,
                !.startDirection = startDirection,
                !.fromStartDir = IF p.kind = "outside" THEN outFromStartDir
                                 ELSE RAdd(outFromStartDir, RInt(2))]

\* moveTo(x, y): fields afterwards and calls made on the target
\* (first a variant in which a move after arcs starts the pen over)
FilletMoveToRestart(p, x, y) ==
  [p |-> IF p.haveArcs THEN [p EXCEPT !.isDone = FALSE, !.haveArcs = FALSE]
         ELSE setStart(p, x, y),
   out |-> <<FMoveCall(SRat(x), SRat(y))>>,
   splits |-> <<>>]
FilletMoveTo(p, x, y) ==
  [p |-> IF p.haveArcs THEN [p EXCEPT !.isDone = TRUE] ELSE setStart(p, x, y),
   out |-> <<FMoveCall(SRat(x), SRat(y))>>,
   splits |-> <<>>]

\* refillet(x, y, direction): the calls made on the target
refillet(p, x, y, direction) ==
  LET turn == RSub(direction, p.startDirection)
      fxy0 == SAdd(SMul(x, SRat(p.snx)), SMul(y, SRat(p.sny)))
      cxy == SSub(SMul(SRat(p.snx), y), SMul(SRat(p.sny), x))
      fxy == SSub(fxy0, SMul(SMul(bulgeFactor(RMul(turn, RInt(2))), cxy), SRat(RInt(2))))
  IN  <<FResetCall,
        FMoveCall(SMul(SRat(p.snx), fxy), SMul(SRat(p.sny), fxy)),
        FArcCall(x, y, turn)>>

\* arcTo(x, y, turn), turn a whole number of quarter turns: fields afterwards,
\* calls made on the target, and the arguments of each interpolateArcTurn call
FilletArcTo(p, x, y, turn) ==
  LET fwd == FArcCall(SRat(x), SRat(y), RInt(turn))
      outside == p.kind = "outside"
      lineDir == angleFromTo(RNeg(p.sny), p.snx, RSub(x, p.tx), RSub(y, p.ty))
      startDir == RSub(lineDir, Rat(turn, 2))
      endDir == RAdd(lineDir, Rat(turn, 2))
      bends == IF outside THEN RLt(endDir, RSub(p.startDirection, EighthPi))
               ELSE RLt(RAdd(p.startDirection, EighthPi), endDir)
      qualified == p.qualified \/ bends
      through == IF outside
                   THEN \/ RLt(startDir, p.fromStartDir)
                        \/ (qualified /\ RLt(RSub(p.startDirection, TenthPi), endDir))
                 ELSE \/ RLt(p.fromStartDir, startDir)
                      \/ (qualified /\ RLt(endDir, RAdd(p.startDirection, TenthPi)))
      corner == p.haveArcs /\ (IF outside THEN RLt(startDir, RSub(p.tdir, TenthRadian))
                               ELSE RLt(RAdd(p.tdir, TenthRadian), startDir))
      q == [p EXCEPT !.qualified = TRUE]
      out1 == IF corner THEN refillet(q, SRat(p.tx), SRat(p.ty), startDir) ELSE <<>>
      badArc == /\ (IF outside THEN turn < 0 ELSE turn > 0)
                /\ CentreToTheLeft(p.snx, p.sny, arcCenter(p.tx, p.ty, x, y, turn))
      moved == [q EXCEPT !.tx = x, !.ty = y, !.tdir = endDir, !.haveArcs = TRUE]
      target_turn == RSub(p.fromStartDir, startDir)
      m == interpolateArcTurnE(p.tx, p.ty, x, y, turn, target_turn)
      rest == RSub(endDir, p.fromStartDir)
  IN  IF p.isDone THEN [p |-> p, out |-> <<fwd>>, splits |-> <<>>]
      ELSE IF ~p.haveStart
        THEN [p |-> setStart(p, x, y), out |-> <<fwd>>, splits |-> <<>>]
      ELSE IF ~p.qualified /\ ~bends
        THEN [p |-> [p EXCEPT !.tx = x, !.ty = y, !.tdir = endDir, !.haveArcs = TRUE],
              out |-> <<fwd>>, splits |-> <<>>]
      ELSE IF through
        THEN [p |-> [q EXCEPT !.isDone = TRUE], out |-> <<fwd>>, splits |-> <<>>]
      ELSE IF ~badArc
        THEN [p |-> moved, out |-> out1 \o <<fwd, fwd>>, splits |-> <<>>]
      ELSE IF RLt(endDir, p.fromStartDir)
        THEN [p |-> [moved EXCEPT !.isDone = TRUE],
              out |-> out1 \o refillet(q, m[1], m[2], p.fromStartDir)
                        \o <<FArcCall(SRat(x), SRat(y), rest)>>,
              splits |-> <<[turn |-> RInt(turn), target_turn |-> target_turn,
                            rest |-> rest]>>]
      ELSE [p |-> moved, out |-> out1 \o refillet(q, SRat(x), SRat(y), endDir),
            splits |-> <<>>]

\* Whether arcTo(x, y, turn) stays within what is computed exactly
FilletArcExact(p, x, y, turn) ==
  \/ p.isDone
  \/ ~p.haveStart /\ y = RInt(0) /\ RLt(RInt(0), x)
  \/ p.haveStart /\ OnCompass(RSub(x, p.tx), RSub(y, p.ty))
\* Whether moveTo(x, y) does
FilletMoveExact(p, x, y) == p.haveArcs \/ (y = RInt(0) /\ RLt(RInt(0), x))

\* Most calls made on one fillet pen.
MaxFilOps == 3

FilKinds == {"outside", "inside"}
\* The pens between the fillet pen and the pen that ends the chain, outermost first
FilChains == {<<>>, <<"XFormPen", "CrappyClippingPen">>}
FilBases == {"RecordingPen", "LastPointCapturePen"}
FilPoints == {<<1, 0>>, <<2, 0>>, <<2, 1>>, <<2, -1>>}
FilTurns == {-2, 0, 2}

\* Whether a pen at the end of a chain has reset(): RecordingPen has,
\* LastPointCapturePen has not
BaseHasReset(base) == base = "RecordingPen"

\* Whether the pen on top of a chain has reset(): XFormPen and
\* CrappyClippingPen take it over from their target
\* (first a variant in which they always have one)
RECURSIVE HasResetAlways(_, _)
HasResetAlways(chain, base) ==
  IF chain = <<>> THEN BaseHasReset(base) ELSE TRUE
RECURSIVE HasReset(_, _)
HasReset(chain, base) ==
  IF chain = <<>> THEN BaseHasReset(base)
  ELSE HasReset(Tail(chain), base)

FilNone ==
  [phase |-> "none", chain |-> <<>>, base |-> "RecordingPen",
   pen |-> NewFilletPen("outside"), nops |-> 0, last |-> FResetCall,
   out |-> <<>>, splits |-> <<>>]
FilInit == fil = FilNone

\* new InitialMaxFilletPen(target) / new InitialMaxInsideFilletPen(target)
FilConstruct ==
  /\ fil.phase = "none"
  /\ \E kind \in FilKinds, chain \in FilChains, base \in FilBases :
       fil' = [fil EXCEPT !.phase = IF HasReset(chain, base) THEN "built" ELSE "threw",
                          !.chain = chain, !.base = base,
                          !.pen = NewFilletPen(kind)]
  /\ UNCHANGED <<gear, rec, arc, clip, xf, draw, pq, near, flip, cp, ccw, fs, gfs, shaper>>

FilCanCall == fil.phase = "built" /\ fil.nops < MaxFilOps

\* pen.moveTo(x, y)
FilMoveTo ==
  /\ FilCanCall
  /\ \E pt \in FilPoints :
       LET x == RInt(pt[1])
           y == RInt(pt[2])
           r == FilletMoveTo(fil.pen, x, y)
       IN  /\ FilletMoveExact(fil.pen, x, y)
           /\ fil' = [fil EXCEPT !.pen = r.p, !.nops = fil.nops + 1,
                                 !.last = FMoveCall(SRat(x), SRat(y)),
                                 !.out = fil.out \o r.out]
  /\ UNCHANGED <<gear, rec, arc, clip, xf, draw, pq, near, flip, cp, ccw, fs, gfs, shaper>>

\* pen.arcTo(x, y, turn)
FilArcTo ==
  /\ FilCanCall
  /\ \E pt \in FilPoints, turn \in FilTurns :
       LET x == RInt(pt[1])
           y == RInt(pt[2])
           r == FilletArcTo(fil.pen, x, y, turn)
       IN  /\ FilletArcExact(fil.pen, x, y, turn)
           /\ fil' = [fil EXCEPT !.pen = r.p, !.nops = fil.nops + 1,
                                 !.last = FArcCall(SRat(x), SRat(y), RInt(turn)),
                                 !.out = fil.out \o r.out,
                                 !.splits = fil.splits \o r.splits]
  /\ UNCHANGED <<gear, rec, arc, clip, xf, draw, pq, near, flip, cp, ccw, fs, gfs, shaper>>

\* pen.reset()
FilReset ==
  /\ FilCanCall
  /\ fil.last.op # "reset"
  /\ fil' = [fil EXCEPT !.pen = FilletReset(fil.pen), !.nops = fil.nops + 1,
                        !.last = FResetCall, !.out = Append(fil.out, FResetCall)]
  /\ UNCHANGED <<gear, rec, arc, clip, xf, draw, pq, near, flip, cp, ccw, fs, gfs, shaper>>

FilNext ==
  \/ FilConstruct
  \/ FilMoveTo
  \/ FilArcTo
  \/ FilReset

\* C13: a fillet pen is constructed only on a chain that ends in a pen with
\* reset(); on any other chain the constructor throws, and nothing has been
\* sent to the target.
C13_FilletPenNeedsResettableTarget ==
  /\ (fil.phase = "built") => BaseHasReset(fil.base)
  /\ (fil.phase = "threw") => (~BaseHasReset(fil.base) /\ fil.out = <<>> /\ fil.nops = 0)
  /\ (fil.phase # "built") => (fil.out = <<>>)

C13_Witness ==
  /\ fil.phase = "threw" /\ fil.pen.kind = "inside"
  /\ fil.chain = <<"XFormPen", "CrappyClippingPen">> /\ fil.base = "LastPointCapturePen"
  /\ fil.out = <<>>

C13_WitnessBuilt ==
  /\ fil.phase = "built" /\ fil.chain = <<"XFormPen", "CrappyClippingPen">>
  /\ fil.base = "RecordingPen" /\ Len(fil.out) > 0

\* unqualified, filleting, done
FilRank(p) == IF p.isDone THEN 2 ELSE IF p.qualified THEN 1 ELSE 0
FilDrawStep == fil.phase = "built" /\ fil'.nops = fil.nops + 1 /\ fil'.last.op # "reset"

\* C14: once a fillet pen is done, every moveTo and arcTo goes to the target as
\* it came and the target is not reset; a moveTo or arcTo never takes the pen
\* back from done to filleting or from filleting to unqualified, so that only
\* reset() leaves done.
C14_DonePassesThrough ==
  [][/\ (FilDrawStep /\ fil.pen.isDone) =>
          (fil'.pen.isDone /\ fil'.out = Append(fil.out, fil'.last))
     /\ FilDrawStep => (FilRank(fil'.pen) >= FilRank(fil.pen))
     /\ (fil.phase = "built" /\ fil.pen.isDone /\ ~fil'.pen.isDone) =>
          (fil'.last.op = "reset" /\ fil'.nops = fil.nops + 1)]_vars

C14_Witness ==
  /\ fil.phase = "built" /\ fil.pen.kind = "outside" /\ fil.nops = 3
  /\ fil.pen.isDone /\ fil.pen.qualified /\ ~fil.pen.haveArcs
  /\ fil.out = <<FMoveCall(SRat(RInt(1)), SRat(RInt(0))),
                 FArcCall(SRat(RInt(2)), SRat(RInt(-1)), RInt(0)),
                 FArcCall(SRat(RInt(2)), SRat(RInt(1)), RInt(2))>>

\* C19: whenever a fillet pen splits an arc, the target turn it passes to
\* interpolateArcTurn lies between 0 and the arc's turn, and the remainder it
\* emits turns the way the arc does.
C19_SplitTurnWithinArc ==
  \A i \in 1..Len(fil.splits) :
    LET s == fil.splits[i]
        z == RInt(0)
    IN  IF RLt(z, s.turn)
          THEN RLeq(z, s.target_turn) /\ RLeq(s.target_turn, s.turn) /\ RLeq(z, s.rest)
        ELSE RLeq(s.turn, s.target_turn) /\ RLeq(s.target_turn, z) /\ RLeq(s.rest, z)

\* the same for InitialMaxFilletPen alone
C19_OutsideSplitTurnWithinArc == (fil.pen.kind = "outside") => C19_SplitTurnWithinArc

\* The calls the target got in this step
FilNewCalls == SubSeq(fil'.out, Len(fil.out) + 1, Len(fil'.out))

\* This step is an arcTo that the pen keeps: the target is not reset for a
\* fillet in its place
FilKeptArc ==
  /\ FilDrawStep /\ fil'.last.op = "arcTo"
  /\ \A i \in 1..Len(FilNewCalls) : FilNewCalls[i].op # "reset"
  /\ Len(fil'.splits) = Len(fil.splits)

\* C25: every input segment a fillet pen passes through without replacing it
\* by a fillet goes to the target exactly once: in the unqualified, filleting
\* and done phases alike, one incoming arcTo that is kept results in one arcTo
\* on the target, never two.
C25_KeptArcForwardedOnce ==
  [][FilKeptArc => FilNewCalls = <<fil'.last>>]_vars

\* the same for the arcs kept before the fillet area is entered and after the
\* pen is done (lines 62-70, 74-85, 88-96)
C25_KeptArcForwardedOnceOutsideFillet ==
  [][(FilKeptArc /\ (fil.pen.isDone \/ fil'.pen.isDone \/ ~fil'.pen.qualified)) =>
       FilNewCalls = <<fil'.last>>]_vars

(***************************************************************************)
(* pqpush and pqpop (src/src/gearcutter/utils/pq.ts)                       *)
(*                                                                         *)
(* The queue is the array q, positions counted from 0 as in the code; an   *)
(* element is <<priority, id>>.                                            *)
(***************************************************************************)
\* Most pqpush and pqpop calls on one queue.
MaxPqOps == 7

PqPriorities == {0, 1, 2}

\* q[i] and q with q[i] and q[j] exchanged, i and j counted from 0
PqAt(q, i) == q[i + 1]
PqSwap(q, i, j) == [q EXCEPT ![i + 1] = q[j + 1], ![j + 1] = q[i + 1]]

\* The loop of pqpush from position pos on
RECURSIVE PqSiftUp(_, _)
PqSiftUp(q, pos) ==
  IF pos > 0
    THEN LET parpos == (pos - 1) \div 2
         IN  IF PqAt(q, parpos)[1] <= PqAt(q, pos)[1] THEN q
             ELSE PqSiftUp(PqSwap(q, parpos, pos), parpos)
  ELSE q

\* pqpush(q, val): the array afterwards (first a variant that only appends)
pqpushAppend(q, val) == Append(q, val)
pqpush(q, val) == PqSiftUp(Append(q, val), Len(q))

\* The loop of pqpop
RECURSIVE PqSiftDown(_, _, _)
PqSiftDown(q, pos, leftpos) ==
  IF leftpos < Len(q)
    THEN LET min1 == IF PqAt(q, pos)[1] > PqAt(q, leftpos)[1] THEN leftpos ELSE pos
             rightpos == leftpos + 1
             minpos == IF rightpos < Len(q) /\ PqAt(q, min1)[1] > PqAt(q, rightpos)[1]
                         THEN rightpos ELSE min1
         IN  IF minpos = pos THEN q
             ELSE PqSiftDown(PqSwap(q, pos, minpos), minpos, minpos * 2 + 1)
  ELSE q

\* pqpop(q): the array afterwards and what is returned (<<>> for undefined)
\* (first a variant that puts the last element at the root and leaves it there)
pqpopNoSift(q) ==
  IF Len(q) = 0 THEN [q |-> q, ret |-> <<>>]
  ELSE IF Len(q) < 2 THEN [q |-> Tail(q), ret |-> <<q[1]>>]
  ELSE [q |-> [Front(q) EXCEPT ![1] = Last(q)], ret |-> <<q[1]>>]
pqpop(q) ==
  IF Len(q) = 0 THEN [q |-> q, ret |-> <<>>]
  ELSE IF Len(q) < 2 THEN [q |-> Tail(q), ret |-> <<q[1]>>]
  ELSE [q |-> PqSiftDown([Front(q) EXCEPT ![1] = Last(q)], 0, 1), ret |-> <<q[1]>>]

\* pushed and popped: the elements handed to pqpush and returned by pqpop so far
PqEmpty ==
  [q |-> <<>>, ret |-> <<>>, last |-> "new", nops |-> 0, pushed |-> {}, popped |-> {}]
PqInit == pq = PqEmpty

\* pqpush(q, [priority, id])
PqPush ==
  /\ pq.nops < MaxPqOps
  /\ \E prio \in PqPriorities :
       pq' = [q |-> pqpush(pq.q, <<prio, pq.nops>>), ret |-> <<>>, last |-> "push",
              nops |-> pq.nops + 1, pushed |-> pq.pushed \cup {<<prio, pq.nops>>},
              popped |-> pq.popped]
  /\ UNCHANGED <<gear, rec, arc, clip, xf, draw, fil, near, flip, cp, ccw, fs, gfs, shaper>>

\* pqpop(q)
PqPop ==
  /\ pq.nops < MaxPqOps
  /\ LET r == pqpop(pq.q)
     IN  pq' = [q |-> r.q, ret |-> r.ret, last |-> "pop", nops |-> pq.nops + 1,
                pushed |-> pq.pushed,
                popped |-> pq.popped \cup {r.ret[i] : i \in 1..Len(r.ret)}]
  /\ UNCHANGED <<gear, rec, arc, clip, xf, draw, fil, near, flip, cp, ccw, fs, gfs, shaper>>

PqNext ==
  \/ PqPush
  \/ PqPop

PqElems(q) == {q[i] : i \in 1..Len(q)}

\* C16: pqpop on an empty queue returns undefined and leaves it empty; on any
\* other queue built by pqpush and pqpop it removes one element and returns
\* it, and no element left has a smaller priority.
C16_PopReturnsMinimum ==
  [][(pq'.nops = pq.nops + 1 /\ pq'.last = "pop") =>
       IF pq.q = <<>> THEN pq'.ret = <<>> /\ pq'.q = <<>>
       ELSE /\ Len(pq'.ret) = 1
            /\ Len(pq'.q) = Len(pq.q) - 1
            /\ PqElems(pq'.q) \cup {pq'.ret[1]} = PqElems(pq.q)
            /\ \A i \in 1..Len(pq'.q) : pq'.ret[1][1] <= pq'.q[i][1]]_vars

\* pushes of priorities 2, 1, 0, 1 and one pop: 0 is returned, 1, 1, 2 stay
C16_Witness ==
  /\ pq.last = "pop" /\ pq.nops = 5 /\ pq.ret = <<<<0, 2>>>>
  /\ PqElems(pq.q) = {<<2, 0>>, <<1, 1>>, <<1, 3>>}

C16_WitnessEmpty == pq.last = "pop" /\ pq.nops = 1 /\ pq.ret = <<>> /\ pq.q = <<>>

\* C30: after any sequence of pqpush and pqpop calls from an empty array, the
\* array is a binary min-heap (for every index i > 0 the priority at index
\* floor((i-1)/2) is <= the priority at i) and holds exactly the pushed
\* elements minus the popped ones (the elements carry distinct ids, so the
\* multiset is a set with as many members as the array is long).
C30_HeapWithPushedMinusPopped ==
  /\ \A i \in 1..(Len(pq.q) - 1) : PqAt(pq.q, (i - 1) \div 2)[1] <= PqAt(pq.q, i)[1]
  /\ PqElems(pq.q) = pq.pushed \ pq.popped
  /\ Len(pq.q) = Cardinality(pq.pushed \ pq.popped)

\* five pushes and two pops: three elements left on two levels
C30_Witness ==
  /\ pq.nops = 7 /\ Len(pq.q) = 3 /\ Cardinality(pq.popped) = 2
  /\ pq.last = "pop" /\ pq.q[1][1] = 1 /\ pq.q[2][1] = 2 /\ pq.q[3][1] = 1

(***************************************************************************)
(* RecordingPen.arcTo near the last recorded point                         *)
(* (src/src/gearcutter/RecordingPen.ts)                                    *)
(*                                                                         *)
(* Coordinates are whole multiples of 1e-8, as in the RecordingPen section:*)
(* a squared distance of 1e-14 is 100 and one of 1e-8 is 100000000.        *)
(***************************************************************************)
\* Most arcTo calls after the first moveTo.
MaxNearOps == 2

\* x - xs[i] and y - ys[i] of the calls: squared distances 0, 81, 100 (twice),
\* 99980001, 100000000 (twice) and 100020001
NearOffsets ==
  {<<0, 0>>, <<9, 0>>, <<10, 0>>, <<-6, 8>>, <<0, -9999>>, <<10000, 0>>,
   <<-6000, 8000>>, <<0, 10001>>}

NearFresh ==
  [before |-> NewPen, after |-> NewPen, last |-> "new", x |-> 0, y |-> 0, turn |-> 0,
   narcs |-> 0]
NearInit == near = NearFresh

\* r.moveTo(x, y) on the empty recorder
NearMoveTo ==
  /\ near.last = "new"
  /\ \E pt \in RecPoints :
       near' = [near EXCEPT !.before = near.after,
                            !.after = PenMoveTo(near.after, pt[1], pt[2]),
                            !.last = "moveTo", !.x = pt[1], !.y = pt[2]]
  /\ UNCHANGED <<gear, rec, arc, clip, xf, draw, fil, pq, flip, cp, ccw, fs, gfs, shaper>>

\* r.arcTo(x, y, turn), the point taken relative to the last recorded one
NearArcTo ==
  /\ near.last # "new" /\ near.narcs < MaxNearOps
  /\ \E d \in NearOffsets, t \in RecTurns :
       LET x == Last(near.after.xs) + d[1]
           y == Last(near.after.ys) + d[2]
       IN  near' = [before |-> near.after,
                    after |-> PenArcTo(near.after, x, y, t).pen,
                    last |-> "arcTo", x |-> x, y |-> y, turn |-> t,
                    narcs |-> near.narcs + 1]
  /\ UNCHANGED <<gear, rec, arc, clip, xf, draw, fil, pq, flip, cp, ccw, fs, gfs, shaper>>

NearNext ==
  \/ NearMoveTo
  \/ NearArcTo

\* the squared distance of the last call's point from the point recorded last
NearMag2 ==
  (near.x - Last(near.before.xs)) * (near.x - Last(near.before.xs))
    + (near.y - Last(near.before.ys)) * (near.y - Last(near.before.ys))

\* the recorder holds what it held before and, after it, the point with turn t
NearRecorded(t) ==
  /\ PenLen(near.after) = PenLen(near.before) + 1
  /\ PenPop(near.after) = near.before
  /\ Last(near.after.xs) = near.x /\ Last(near.after.ys) = near.y
  /\ Last(near.after.turns) = Turn(t)

\* C21: arcTo to a point whose squared distance from the last recorded point
\* is below 1e-14 records nothing; with a squared distance of at least 1e-14
\* and below 1e-8 it records the point with turn 0 whatever turn was given;
\* otherwise it records the point with the given turn.
C21_ArcToThresholds ==
  near.last = "arcTo" =>
    /\ NearMag2 < 100 => near.after = near.before
    /\ (NearMag2 >= 100 /\ NearMag2 < 100000000) => NearRecorded(0)
    /\ NearMag2 >= 100000000 => NearRecorded(near.turn)

\* a point at exactly 1e-14 is recorded, with turn 0 although 2 was given
C21_Witness ==
  /\ near.last = "arcTo" /\ NearMag2 = 100 /\ near.turn = 2
  /\ PenLen(near.after) = 2 /\ Last(near.after.turns) = Turn(0)

\* a point at exactly 1e-8 keeps its turn
C21_WitnessKept ==
  /\ near.last = "arcTo" /\ NearMag2 = 100000000 /\ near.turn = -1
  /\ Last(near.after.turns) = Turn(-1)

\* a point below 1e-14 after a recorded arc leaves the recorder as it was
C21_WitnessDropped ==
  /\ near.last = "arcTo" /\ NearMag2 = 81 /\ near.narcs = 2
  /\ PenLen(near.after) = 2 /\ near.after = near.before

(***************************************************************************)
(* applyMaxToothFillet and reverseAndFlipPath (src/unnamed/part_005)       *)
(*                                                                         *)
(* A PathFunc is modelled by the recorder whose path or reversedPath it is *)
(* and by the calls it makes when called with doMove = true.               *)
(***************************************************************************)
\* Most operations recorded in the path that is reversed and flipped.
MaxFlipOps == 3

\* Calls with whole coordinates as calls with real ones, and back
RealCalls(cs) ==
  [i \in 1..Len(cs) |->
     IF cs[i].op = "moveTo" THEN RMoveCall(RInt(cs[i].x), RInt(cs[i].y))
     ELSE RArcCall(RInt(cs[i].x), RInt(cs[i].y), cs[i].turn)]
WholeCalls(cs) ==
  [i \in 1..Len(cs) |->
     IF cs[i].op = "moveTo" THEN MoveCall(cs[i].x[1], cs[i].y[1])
     ELSE ArcCall(cs[i].x[1], cs[i].y[1], cs[i].turn)]

\* new XForm().scale(1, true).transformPath(path): the recorder returned, for a
\* path making the calls given
flipRecord(calls) ==
  Play(WholeCalls(processPathPlain(XScale(NewXForm, RInt(1), TRUE), RealCalls(calls))),
       NewPen).pen

\* reverseAndFlipPath(path): the calls of the path returned, rec.reversedPath
\* (first a variant whose reversed path leaves out the leading move)
reverseAndFlipPathNoMove(calls) == reversedPath(flipRecord(calls), FALSE)
reverseAndFlipPath(calls) == reversedPath(flipRecord(calls), TRUE)

\* applyLeadingFillet(path) for a path the fillet pen forwards unchanged:
\* transformPath records the calls, rec.path is returned
applyLeadingFilletUnchanged(calls) == path(Play(calls, NewPen).pen, TRUE)

\* applyMaxToothFillet(toothPath), the fillet pass changing nothing
applyMaxToothFillet(calls) ==
  reverseAndFlipPath(applyLeadingFilletUnchanged(
    reverseAndFlipPath(applyLeadingFilletUnchanged(calls))))

FlipFresh ==
  [phase |-> "record", r |-> NewPen, r1 |-> NewPen, twice |-> <<>>, fillet |-> <<>>]
FlipInit == flip = FlipFresh

\* r.moveTo(x, y)
FlipMoveTo ==
  /\ flip.phase = "record" /\ PenLen(flip.r) < MaxFlipOps
  /\ \E pt \in RecPoints :
       flip' = [flip EXCEPT !.r = PenMoveTo(flip.r, pt[1], pt[2])]
  /\ UNCHANGED <<gear, rec, arc, clip, xf, draw, fil, pq, near, cp, ccw, fs, gfs, shaper>>

\* r.arcTo(x, y, turn), after a moveTo
FlipArcTo ==
  /\ flip.phase = "record" /\ PenLen(flip.r) < MaxFlipOps /\ PenLen(flip.r) > 0
  /\ \E pt \in RecPoints, t \in RecTurns :
       flip' = [flip EXCEPT !.r = PenArcTo(flip.r, pt[1], pt[2], t).pen]
  /\ UNCHANGED <<gear, rec, arc, clip, xf, draw, fil, pq, near, cp, ccw, fs, gfs, shaper>>

\* reverseAndFlipPath(reverseAndFlipPath(r.path)) and applyMaxToothFillet(r.path)
FlipTwice ==
  /\ flip.phase = "record"
  /\ flip' = [flip EXCEPT
                !.phase = "done",
                !.r1 = flipRecord(path(flip.r, TRUE)),
                !.twice = reverseAndFlipPath(reverseAndFlipPath(path(flip.r, TRUE))),
                !.fillet = applyMaxToothFillet(path(flip.r, TRUE))]
  /\ UNCHANGED <<gear, rec, arc, clip, xf, draw, fil, pq, near, cp, ccw, fs, gfs, shaper>>

FlipNext ==
  \/ FlipMoveTo
  \/ FlipArcTo
  \/ FlipTwice

MaxCpOps == 3

P2Point(x, y) == [k |-> "point", x |-> x, y |-> y, turn |-> 0, cx |-> 0, cy |-> 0]
P2Arc(x, y, turn) == [k |-> "arc", x |-> x, y |-> y, turn |-> turn, cx |-> 0, cy |-> 0]
P2Conic(x1, y1, x2, y2) == [k |-> "conic", x |-> x2, y |-> y2, turn |-> 0, cx |-> x1, cy |-> y1]

\* RecordingPen2D.move
P2Move(paths, x, y) ==
  IF Len(paths) > 0 /\ Len(Last(paths)) < 2
    THEN Append(Front(paths), <<P2Point(x, y)>>)
  ELSE Append(paths, <<P2Point(x, y)>>)

\* RecordingPen2D.line / arc / conic: the entry is pushed on the last path
P2Push(paths, seg) == [paths EXCEPT ![Len(paths)] = Append(paths[Len(paths)], seg)]

\* The last entry of a path with its end point moved to (sx, sy), a conic's
\* control point moved by half the gap
P2Adjust(endSeg, sx, sy) ==
  [endSeg EXCEPT !.x = sx, !.y = sy,
                 !.cx = IF endSeg.k = "conic" THEN endSeg.cx + (sx - endSeg.x) \div 2 ELSE @,
                 !.cy = IF endSeg.k = "conic" THEN endSeg.cy + (sy - endSeg.y) \div 2 ELSE @]

\* RecordingPen2D.closePath(pathIndex, snapDistance, snapProp), pathIndex
\* counted from 0 and snapProp the fraction snapProp[1] / snapProp[2]
\* (first a variant that always appends the closing line)
closePathLineOnly(paths, pathIndex, snapDistance, snapProp) ==
  IF pathIndex < 0 \/ pathIndex >= Len(paths) THEN paths
  ELSE LET pth == paths[pathIndex + 1]
       IN  IF Len(pth) < 2 THEN paths
           ELSE [paths EXCEPT ![pathIndex + 1] = Append(pth, P2Point(pth[1].x, pth[1].y))]
closePath(paths, pathIndex, snapDistance, snapProp) ==
  IF pathIndex < 0 \/ pathIndex >= Len(paths) THEN paths
  ELSE LET pth == paths[pathIndex + 1]
       IN  IF Len(pth) < 2 THEN paths
           ELSE LET sx == pth[1].x
                    sy == pth[1].y
                    endSeg == Last(pth)
                    tx == endSeg.x
                    ty == endSeg.y
                    errx == sx - tx
                    erry == sy - ty
                    err2 == errx * errx + erry * erry
                    x0 == pth[Len(pth) - 1].x
                    y0 == pth[Len(pth) - 1].y
                    lx == tx - x0
                    ly == tx - y0
                    l2 == lx * lx + ly * ly
                    withLine == [paths EXCEPT ![pathIndex + 1] = Append(pth, P2Point(sx, sy))]
                IN  IF sx = tx /\ sy = ty THEN paths
                    ELSE IF err2 > snapDistance * snapDistance THEN withLine
                    ELSE IF err2 * snapProp[2] * snapProp[2] >= snapProp[1] * snapProp[1] * l2
                      THEN withLine
                    ELSE [paths EXCEPT ![pathIndex + 1] =
                            Append(Front(pth), P2Adjust(endSeg, sx, sy))]

CpPoints == {<<0, 0>>, <<0, 10>>, <<0, 12>>, <<10, 0>>}
CpSnapDistances == {2, 20}
CpSnapProps == {<<1, 2>>}

CpFresh ==
  [paths |-> <<>>, last |-> "new", nops |-> 0, before |-> <<>>,
   snapDistance |-> 0, snapProp |-> <<0, 1>>]
CpInit == cp = CpFresh

CpCanDraw == cp.last # "closePath" /\ cp.nops < MaxCpOps

\* pen.move(x, y)
CpMove ==
  /\ CpCanDraw
  /\ \E pt \in CpPoints :
       cp' = [cp EXCEPT !.paths = P2Move(cp.paths, pt[1], pt[2]), !.last = "move",
                        !.nops = cp.nops + 1]
  /\ UNCHANGED <<gear, rec, arc, clip, xf, draw, fil, pq, near, flip, ccw, fs, gfs, shaper>>

\* pen.line(x, y), after a move
CpLine ==
  /\ CpCanDraw /\ Len(cp.paths) > 0
  /\ \E pt \in CpPoints :
       cp' = [cp EXCEPT !.paths = P2Push(cp.paths, P2Point(pt[1], pt[2])), !.last = "line",
                        !.nops = cp.nops + 1]
  /\ UNCHANGED <<gear, rec, arc, clip, xf, draw, fil, pq, near, flip, ccw, fs, gfs, shaper>>

\* pen.arc(x, y, 90), after a move
CpArc ==
  /\ CpCanDraw /\ Len(cp.paths) > 0
  /\ \E pt \in CpPoints :
       cp' = [cp EXCEPT !.paths = P2Push(cp.paths, P2Arc(pt[1], pt[2], 90)), !.last = "arc",
                        !.nops = cp.nops + 1]
  /\ UNCHANGED <<gear, rec, arc, clip, xf, draw, fil, pq, near, flip, ccw, fs, gfs, shaper>>

\* pen.conic(x1, y1, x2, y2, w) with the control point (10, 10), after a move
CpConic ==
  /\ CpCanDraw /\ Len(cp.paths) > 0
  /\ \E pt \in CpPoints :
       cp' = [cp EXCEPT !.paths = P2Push(cp.paths, P2Conic(10, 10, pt[1], pt[2])),
                        !.last = "conic", !.nops = cp.nops + 1]
  /\ UNCHANGED <<gear, rec, arc, clip, xf, draw, fil, pq, near, flip, ccw, fs, gfs, shaper>>

\* pen.closePath(0, snapDistance, snapProp)
CpClosePath ==
  /\ cp.last \notin {"new", "closePath"}
  /\ \E sd \in CpSnapDistances, sp \in CpSnapProps :
       cp' = [cp EXCEPT !.paths = closePath(cp.paths, 0, sd, sp), !.last = "closePath",
                        !.before = cp.paths, !.snapDistance = sd, !.snapProp = sp]
  /\ UNCHANGED <<gear, rec, arc, clip, xf, draw, fil, pq, near, flip, ccw, fs, gfs, shaper>>

CpNext ==
  \/ CpMove
  \/ CpLine
  \/ CpArc
  \/ CpConic
  \/ CpClosePath

\* closePath was called on a first path with at least one segment
CpClosed == cp.last = "closePath" /\ Len(cp.before) > 0 /\ Len(cp.before[1]) >= 2

\* the squared gap between the end and the start of the path before the call,
\* and the squared start-to-end distance of its last segment
CpGap2 ==
  LET p == cp.before[1]
  IN  (p[1].x - Last(p).x) * (p[1].x - Last(p).x) + (p[1].y - Last(p).y) * (p[1].y - Last(p).y)
CpLastLen2 ==
  LET p == cp.before[1]
      a == p[Len(p) - 1]
      b == Last(p)
  IN  (b.x - a.x) * (b.x - a.x) + (b.y - a.y) * (b.y - a.y)

\* the gap is within snapDistance and smaller than snapProp times the length
\* of the last segment
CpMaySnap ==
  /\ CpGap2 <= cp.snapDistance * cp.snapDistance
  /\ CpGap2 * cp.snapProp[2] * cp.snapProp[2] < cp.snapProp[1] * cp.snapProp[1] * CpLastLen2

CpEndsAtStart ==
  LET p == cp.paths[1] IN Last(p).x = p[1].x /\ Last(p).y = p[1].y

\* C23: closePath on a path with at least one segment makes no change when
\* the end point equals the start point; moves the end point of the last
\* segment onto the start point when the gap is within snapDistance and
\* smaller than snapProp times the start-to-end distance of the last segment;
\* otherwise appends a straight line to the start point. In every case the
\* path then ends exactly at its start point.
C23_ClosePathSnapsOrAddsLine ==
  CpClosed =>
    LET old == cp.before[1]
        new == cp.paths[1]
    IN  /\ CpEndsAtStart
        /\ Tail(cp.paths) = Tail(cp.before)
        /\ IF CpGap2 = 0 THEN new = old
           ELSE IF CpMaySnap
             THEN /\ Len(new) = Len(old) /\ Front(new) = Front(old)
                  /\ Last(new).k = Last(old).k
           ELSE new = Append(old, P2Point(old[1].x, old[1].y))

\* whichever of the three it does, the path ends at its start point and the
\* other entries are as they were
C23_ClosedPathEndsAtStart ==
  CpClosed =>
    /\ CpEndsAtStart
    /\ Tail(cp.paths) = Tail(cp.before)
    /\ \/ cp.paths[1] = cp.before[1]
       \/ Len(cp.paths[1]) = Len(cp.before[1]) /\ Front(cp.paths[1]) = Front(cp.before[1])
       \/ Front(cp.paths[1]) = cp.before[1] /\ Last(cp.paths[1]).k = "point"

(***************************************************************************)
(* MakeCCWPen (src/src/oc/bodyShaper.ts) over RecordingPen2D               *)
(*                                                                         *)
(* A call on a Pen2D is an entry as the recorder keeps it, with k one of   *)
(* "move", "line", "arc", "conic". Arcs turn by 90 or -90 degrees.         *)
(***************************************************************************)
\* Most move, line, arc and conic calls on one MakeCCWPen.
MaxCcwOps == 3

P2Call(k, seg) == [seg EXCEPT !.k = k]

\* conicArcParams(turnDegrees)[0], -Math.tan(turnDegrees * DEGREE * 0.5)
ArcDeflection(turnDegrees) ==
  CASE turnDegrees = 90 -> -1 [] turnDegrees = -90 -> 1 [] OTHER -> 0

\* The control points getPathSignedAreaApprox visits for the entries of pth
\* from index i on, the pen standing at (tx, ty)
RECURSIVE P2ControlPoints(_, _, _, _)
P2ControlPoints(pth, i, tx, ty) ==
  IF i > Len(pth) THEN <<>>
  ELSE LET seg == pth[i]
           dx == (seg.x - tx) \div 2
           dy == (seg.y - ty) \div 2
           d == ArcDeflection(seg.turn)
           pts == CASE seg.k = "arc" ->
                         <<<<tx + dx - dy * d, ty + dy + dx * d>>, <<seg.x, seg.y>>>>
                    [] seg.k = "conic" -> <<<<seg.cx, seg.cy>>, <<seg.x, seg.y>>>>
                    [] OTHER -> <<<<seg.x, seg.y>>>>
       IN  pts \o P2ControlPoints(pth, i + 1, seg.x, seg.y)

\* The sum A of (x + tx) * (y - ty) over the points pts[i..], from (tx, ty)
RECURSIVE P2AreaSum(_, _, _, _)
P2AreaSum(pts, i, tx, ty) ==
  IF i > Len(pts) THEN 0
  ELSE (pts[i][1] + tx) * (pts[i][2] - ty) + P2AreaSum(pts, i + 1, pts[i][1], pts[i][2])

\* RecordingPen2D.getPathSignedAreaApprox, doubled: A before `A * 0.5`
getPathSignedAreaApprox2(pth) ==
  P2AreaSum(P2ControlPoints(pth, 2, pth[1].x, pth[1].y) \o <<<<pth[1].x, pth[1].y>>>>,
            1, pth[1].x, pth[1].y)

\* RecordingPen2D.replayPath: the calls made on the pen
replayPath(pth) ==
  [i \in 1..Len(pth) |->
     IF i = 1 THEN P2Call("move", pth[1])
     ELSE P2Call(IF pth[i].k = "point" THEN "line" ELSE pth[i].k, pth[i])]

\* RecordingPen2D.replayPathReversed: the calls made on the pen
\* (first a variant that keeps the turn of an arc)
replayPathReversedSameTurn(pth) ==
  [j \in 1..Len(pth) |->
     IF j = 1 THEN P2Call("move", P2Point(Last(pth).x, Last(pth).y))
     ELSE LET i == Len(pth) + 2 - j
              seg == pth[i]
              pre == pth[i - 1]
          IN  CASE seg.k = "arc" -> P2Call("arc", P2Arc(pre.x, pre.y, seg.turn))
                [] seg.k = "conic" -> P2Call("conic", P2Conic(seg.cx, seg.cy, pre.x, pre.y))
                [] OTHER -> P2Call("line", P2Point(pre.x, pre.y))]
replayPathReversed(pth) ==
  [j \in 1..Len(pth) |->
     IF j = 1 THEN P2Call("move", P2Point(Last(pth).x, Last(pth).y))
     ELSE LET i == Len(pth) + 2 - j
              seg == pth[i]
              pre == pth[i - 1]
          IN  CASE seg.k = "arc" -> P2Call("arc", P2Arc(pre.x, pre.y, -seg.turn))
                [] seg.k = "conic" -> P2Call("conic", P2Conic(seg.cx, seg.cy, pre.x, pre.y))
                [] OTHER -> P2Call("line", P2Point(pre.x, pre.y))]

\* RecordingPen2D.pathCount
pathCount(paths) ==
  IF Len(paths) > 0 /\ Len(Last(paths)) < 2 THEN Len(paths) - 1 ELSE Len(paths)

\* MakeCCWPen.flush: the recorder's paths afterwards and the calls on the target
flush(c) ==
  IF pathCount(c.paths) > 0
    THEN LET closed == closePath(c.paths, 0, c.snapDistance, c.snapProp)
         IN  [paths |-> <<>>,
              calls |-> IF getPathSignedAreaApprox2(closed[1]) < 0
                          THEN replayPathReversed(closed[1])
                        ELSE replayPath(closed[1])]
  ELSE [paths |-> c.paths, calls |-> <<>>]

CcwTurns == {90, -90}

CcwNone ==
  [phase |-> "none", paths |-> <<>>, out |-> <<>>, nops |-> 0, last |-> "new",
   snapDistance |-> 0, snapProp |-> <<0, 1>>]
CcwInit == ccw = CcwNone

\* new MakeCCWPen(target, snapDistance, snapProp)
CcwConstruct ==
  /\ ccw.phase = "none"
  /\ \E sd \in CpSnapDistances, sp \in CpSnapProps :
       ccw' = [ccw EXCEPT !.phase = "built", !.snapDistance = sd, !.snapProp = sp]
  /\ UNCHANGED <<gear, rec, arc, clip, xf, draw, fil, pq, near, flip, cp, fs, gfs, shaper>>

CcwCanDraw == ccw.phase = "built" /\ ccw.nops < MaxCcwOps

\* pen.move(x, y): flush, then recorder.move
CcwMove ==
  /\ CcwCanDraw
  /\ \E pt \in CpPoints :
       LET f == flush(ccw)
       IN  ccw' = [ccw EXCEPT !.paths = P2Move(f.paths, pt[1], pt[2]),
                              !.out = ccw.out \o f.calls,
                              !.nops = ccw.nops + 1, !.last = "move"]
  /\ UNCHANGED <<gear, rec, arc, clip, xf, draw, fil, pq, near, flip, cp, fs, gfs, shaper>>

\* pen.line(x, y), after a move
CcwLine ==
  /\ CcwCanDraw /\ Len(ccw.paths) > 0
  /\ \E pt \in CpPoints :
       ccw' = [ccw EXCEPT !.paths = P2Push(ccw.paths, P2Point(pt[1], pt[2])),
                          !.nops = ccw.nops + 1, !.last = "line"]
  /\ UNCHANGED <<gear, rec, arc, clip, xf, draw, fil, pq, near, flip, cp, fs, gfs, shaper>>

\* pen.arc(x, y, turnDegrees), after a move
CcwArc ==
  /\ CcwCanDraw /\ Len(ccw.paths) > 0
  /\ \E pt \in CpPoints, t \in CcwTurns :
       ccw' = [ccw EXCEPT !.paths = P2Push(ccw.paths, P2Arc(pt[1], pt[2], t)),
                          !.nops = ccw.nops + 1, !.last = "arc"]
  /\ UNCHANGED <<gear, rec, arc, clip, xf, draw, fil, pq, near, flip, cp, fs, gfs, shaper>>

\* pen.conic(10, 10, x, y, w), after a move
CcwConic ==
  /\ CcwCanDraw /\ Len(ccw.paths) > 0
  /\ \E pt \in CpPoints :
       ccw' = [ccw EXCEPT !.paths = P2Push(ccw.paths, P2Conic(10, 10, pt[1], pt[2])),
                          !.nops = ccw.nops + 1, !.last = "conic"]
  /\ UNCHANGED <<gear, rec, arc, clip, xf, draw, fil, pq, near, flip, cp, fs, gfs, shaper>>

\* pen.flush()
CcwFlush ==
  /\ ccw.phase = "built" /\ ccw.last \notin {"new", "flush"}
  /\ LET f == flush(ccw)
     IN  ccw' = [ccw EXCEPT !.paths = f.paths, !.out = ccw.out \o f.calls,
                            !.last = "flush"]
  /\ UNCHANGED <<gear, rec, arc, clip, xf, draw, fil, pq, near, flip, cp, fs, gfs, shaper>>

\* The calls of `calls` as the path a recorder would keep of them
CcwAsPath(calls) ==
  [i \in 1..Len(calls) |->
     IF calls[i].k \in {"move", "line"} THEN [calls[i] EXCEPT !.k = "point"] ELSE calls[i]]

\* The indices at which a sub-path starts among the calls the target got
CcwStarts(calls) == {i \in 1..Len(calls) : calls[i].k = "move"}

\* The sub-path of `calls` that starts at index i
CcwSubPath(calls, i) ==
  LET ends == {j \in i..Len(calls) : j = Len(calls) \/ calls[j + 1].k = "move"}
      j == CHOOSE e \in ends : \A o \in ends : e <= o
  IN  CcwAsPath(SubSeq(calls, i, j))

CcwFlushStep == ccw'.out # ccw.out

\* C29: the recorder of a MakeCCWPen holds at most one sub-path, every
\* sub-path the target has received starts with a move, ends where it started
\* and has a control polygon of non-negative signed area, and a flush forwards
\* the closed pending sub-path forward when its approximate signed area is
\* not negative and reversed when it is negative.
C29_ForwardedSubPathsCCW ==
  /\ [](/\ Len(ccw.paths) <= 1
        /\ ccw.out # <<>> => ccw.out[1].k = "move"
        /\ \A i \in CcwStarts(ccw.out) :
             LET sub == CcwSubPath(ccw.out, i)
             IN  /\ Last(sub).x = sub[1].x /\ Last(sub).y = sub[1].y
                 /\ getPathSignedAreaApprox2(sub) >= 0)
  /\ [][CcwFlushStep =>
          LET closed == closePath(ccw.paths, 0, ccw.snapDistance, ccw.snapProp)[1]
              new == SubSeq(ccw'.out, Len(ccw.out) + 1, Len(ccw'.out))
          IN  /\ ccw'.paths = IF CcwMove THEN <<ccw'.paths[1]>> ELSE <<>>
              /\ CcwAsPath(new) =
                   IF getPathSignedAreaApprox2(closed) < 0
                     THEN CcwAsPath(replayPathReversed(closed))
                   ELSE closed]_vars

\* A clockwise sub-path with an arc was pending and has reached the target
\* reversed, with positive area
C29_Witness ==
  /\ ccw.last = "flush" /\ Len(ccw.out) = 3
  /\ ccw.out[1].k = "move" /\ ccw.out[2].k = "line" /\ ccw.out[3].k = "arc"
  /\ ccw.out[3].turn = 90
  /\ getPathSignedAreaApprox2(CcwAsPath(ccw.out)) > 0

\* A counter-clockwise triangle has reached the target as it was drawn
C29_WitnessForward ==
  /\ ccw.last = "flush" /\ Len(ccw.out) = 4
  /\ \A i \in 2..4 : ccw.out[i].k = "line"
  /\ ccw.out[2].x = 10 /\ ccw.out[3].y = 10
  /\ getPathSignedAreaApprox2(CcwAsPath(ccw.out)) > 0

CcwNext ==
  \/ CcwConstruct
  \/ CcwMove
  \/ CcwLine
  \/ CcwArc
  \/ CcwConic
  \/ CcwFlush

(***************************************************************************)
(* FileServer (src/unnamed/part_002): the files it stores                  *)
(*                                                                         *)
(* Time is in milliseconds read from a clock that never runs backwards; a  *)
(* call reads it without the clock moving meanwhile.  An id of randomUUID  *)
(* is the numeral of a number never issued before.  A URL is the sequence *)
(* of the pieces it is put together from, each a string.                   *)
(***************************************************************************)
\* Most calls on one FileServer, and the latest time on the clock.
MaxFsOps == 4
MaxFsClock == 4

FsMaxAges == {1, 2}
FsData == {"stl", "glb"}
FsHost == "localhost"

\* `http://${this.host}:${this.port}/file/${id}`
FileUrl(host, port, id) == <<"http://", host, ":", ToString(port), "/file/", id>>
\* `http://${this.host}:${this.port}/health`
HealthUrl(host, port) == <<"http://", host, ":", ToString(port), "/health">>

\* FileServer.extractIdFromUrl: the piece after the first "/file/", or "" for null
extractIdFromUrl(url) ==
  LET at == {i \in 1..(Len(url) - 1) : url[i] = "/file/"}
  IN  IF at = {} THEN ""
      ELSE url[(CHOOSE i \in at : \A j \in at : i <= j) + 1]

\* FileServer.cleanupOldFiles at time now
\* (first a variant that also removes the files exactly fileMaxAgeMs old)
cleanupOldFilesInclusive(files, now, fileMaxAgeMs) ==
  {f \in files : ~(now - f.timestamp >= fileMaxAgeMs)}
cleanupOldFiles(files, now, fileMaxAgeMs) ==
  {f \in files : ~(now - f.timestamp > fileMaxAgeMs)}

FsIds(files) == {f.id : f \in files}

FsNone ==
  [phase |-> "none", files |-> {}, clock |-> 0, issued |-> 0, port |-> 0,
   fileMaxAgeMs |-> 0, url |-> <<>>, data |-> "", ret |-> FALSE, last |-> "new",
   before |-> {}, nops |-> 0]
FsInit == fs = FsNone

\* new FileServer({ fileMaxAgeMs })
FsConstruct ==
  /\ fs.phase = "none"
  /\ \E a \in FsMaxAges : fs' = [fs EXCEPT !.phase = "built", !.fileMaxAgeMs = a]
  /\ UNCHANGED <<gear, rec, arc, clip, xf, draw, fil, pq, near, flip, cp, ccw, gfs, shaper>>

FsCanCall == fs.phase = "built" /\ fs.nops < MaxFsOps

\* server.storeFile(data, mimeType)
FsStoreFile ==
  /\ FsCanCall
  /\ \E d \in FsData :
       LET kept == cleanupOldFiles(fs.files, fs.clock, fs.fileMaxAgeMs)
           id == ToString(fs.issued + 1)
       IN  fs' = [fs EXCEPT !.files = kept \cup {[id |-> id, data |-> d, timestamp |-> fs.clock]},
                            !.issued = fs.issued + 1,
                            !.url = FileUrl(FsHost, fs.port, id),
                            !.data = d,
                            !.last = "storeFile",
                            !.before = fs.files,
                            !.nops = fs.nops + 1]
  /\ UNCHANGED <<gear, rec, arc, clip, xf, draw, fil, pq, near, flip, cp, ccw, gfs, shaper>>

\* server.removeFile(url), with a URL storeFile returned or the health URL
FsRemoveFile ==
  /\ FsCanCall
  /\ \E u \in {FileUrl(FsHost, fs.port, ToString(i)) : i \in 1..fs.issued} \cup {HealthUrl(FsHost, fs.port)} :
       LET id == extractIdFromUrl(u)
       IN  fs' = [fs EXCEPT !.files = {f \in fs.files : f.id # id},
                            !.url = u,
                            !.ret = (id # "" /\ id \in FsIds(fs.files)),
                            !.last = "removeFile",
                            !.before = fs.files,
                            !.nops = fs.nops + 1]
  /\ UNCHANGED <<gear, rec, arc, clip, xf, draw, fil, pq, near, flip, cp, ccw, gfs, shaper>>

\* A millisecond passes
FsTick ==
  /\ fs.phase = "built" /\ fs.clock < MaxFsClock
  /\ fs' = [fs EXCEPT !.clock = fs.clock + 1, !.last = "tick"]
  /\ UNCHANGED <<gear, rec, arc, clip, xf, draw, fil, pq, near, flip, cp, ccw, gfs, shaper>>

FsAge(f) == fs.clock - f.timestamp
FsStored(id) == CHOOSE f \in fs.files : f.id = id

\* C24: right after storeFile no stored file is older than fileMaxAgeMs, the
\* files that were stored before and are not older than that are kept as they
\* were, the id of the returned URL was in use by no file and now maps to the
\* data just stored; removeFile returns true exactly when the id of its URL
\* was stored, and the file is gone afterwards, so that a second removeFile of
\* the same URL returns false.
C24_StoreCleansThenStoresFresh ==
  /\ (fs.last = "storeFile" =>
        LET id == extractIdFromUrl(fs.url)
        IN  /\ \A f \in fs.files : FsAge(f) <= fs.fileMaxAgeMs
            /\ \A f \in fs.before : FsAge(f) <= fs.fileMaxAgeMs => f \in fs.files
            /\ id \notin FsIds(fs.before)
            /\ Cardinality({f \in fs.files : f.id = id}) = 1
            /\ FsStored(id).data = fs.data
            /\ fs.files \subseteq fs.before \cup {FsStored(id)})
  /\ (fs.last = "removeFile" =>
        LET id == extractIdFromUrl(fs.url)
        IN  /\ fs.ret = (id \in FsIds(fs.before))
            /\ id \notin FsIds(fs.files)
            /\ fs.files = {f \in fs.before : f.id # id})

\* storeFile has dropped a file older than fileMaxAgeMs and kept one that is
\* exactly that old
C24_Witness ==
  /\ fs.last = "storeFile"
  /\ \E f \in fs.before : FsAge(f) > fs.fileMaxAgeMs /\ f \notin fs.files
  /\ \E f \in fs.before : FsAge(f) = fs.fileMaxAgeMs /\ f \in fs.files

\* A stored file has been removed by its URL
C24_WitnessRemoved ==
  /\ fs.last = "removeFile" /\ fs.ret = TRUE /\ fs.before # fs.files

\* A URL whose file is no longer stored has been removed again, in vain
C24_WitnessRemovedTwice ==
  /\ fs.last = "removeFile" /\ fs.ret = FALSE
  /\ extractIdFromUrl(fs.url) \in {ToString(i) : i \in 1..fs.issued}

FsNext ==
  \/ FsConstruct
  \/ FsStoreFile
  \/ FsRemoveFile
  \/ FsTick

(***************************************************************************)
(* getFileServer (src/unnamed/part_002): the singleton and its callers     *)
(*                                                                         *)
(* Each caller calls getFileServer once and awaits the promise.  The code  *)
(* of a call runs up to its first pending await in one step; the callback  *)
(* of app.listen, or the server's 'error' event, comes in a later step,    *)
(* and the code waiting on start() continues in that same step.  A promise *)
(* of an async function that returned without a pending await is resolved  *)
(* before any callback can run, so its caller sees the server as it was    *)
(* when the call was made.                                                 *)
(***************************************************************************)
\* The callers are 1..MaxGfsCallers.
MaxGfsCallers == 3
GfsCallers == 1..MaxGfsCallers

\* options.port: 0 asks the system for a port, and the system gives 49152
GfsPorts == {0, 8080}
GfsAssigned(port) == IF port = 0 THEN 49152 ELSE port

GfsIdle == [pc |-> "idle", running |-> FALSE, port |-> 0, url |-> <<>>]

GfsNone ==
  [server |-> "null", isRunning |-> FALSE, port |-> 0, listen |-> "none",
   starts |-> 0, call |-> [c \in GfsCallers |-> GfsIdle]]
GfsInit == gfs = GfsNone

\* What the caller of a resolved promise sees of the server it got
GfsResolved(g) == [pc |-> "resolved", running |-> g.isRunning, port |-> g.port, url |-> <<>>]

\* getFileServer(options) up to `await globalFileServer.start()` when there is
\* no singleton yet (start() calls app.listen and waits for its callback)
GfsCallFirst(g, c, port) ==
  [g EXCEPT !.server = "made", !.isRunning = FALSE, !.port = port,
            !.listen = "pending", !.starts = g.starts + 1,
            !.call[c].pc = "awaiting"]

\* getFileServer(options) when globalFileServer is set: it is returned at once
GfsCallAgain(g, c) == [g EXCEPT !.call[c] = GfsResolved(g)]

\* A caller calls getFileServer
GfsCall ==
  /\ \E c \in GfsCallers, port \in GfsPorts :
       /\ gfs.call[c].pc = "idle"
       /\ gfs' = IF gfs.server = "null" THEN GfsCallFirst(gfs, c, port)
                 ELSE GfsCallAgain(gfs, c)
  /\ UNCHANGED <<gear, rec, arc, clip, xf, draw, fil, pq, near, flip, cp, ccw, fs, shaper>>

\* The callback of app.listen: the server runs, its port is known, start()
\* resolves, and the call that awaited it returns the singleton
GfsListening ==
  /\ gfs.listen = "pending"
  /\ LET g == [gfs EXCEPT !.isRunning = TRUE, !.port = GfsAssigned(gfs.port),
                          !.listen = "done"]
     IN  gfs' = [g EXCEPT !.call = [c \in GfsCallers |->
                    IF gfs.call[c].pc = "awaiting" THEN GfsResolved(g) ELSE gfs.call[c]]]
  /\ UNCHANGED <<gear, rec, arc, clip, xf, draw, fil, pq, near, flip, cp, ccw, fs, shaper>>

\* The server's 'error' event: start() rejects, and so does the call that
\* awaited it; globalFileServer stays set
GfsListenError ==
  /\ gfs.listen = "pending"
  /\ gfs' = [gfs EXCEPT !.listen = "failed",
                        !.call = [c \in GfsCallers |->
                          IF gfs.call[c].pc = "awaiting"
                            THEN [gfs.call[c] EXCEPT !.pc = "rejected"]
                          ELSE gfs.call[c]]]
  /\ UNCHANGED <<gear, rec, arc, clip, xf, draw, fil, pq, near, flip, cp, ccw, fs, shaper>>

\* A caller whose promise resolved stores a file on the server it got
GfsStoreFile ==
  /\ \E c \in GfsCallers :
       /\ gfs.call[c].pc = "resolved"
       /\ gfs' = [gfs EXCEPT !.call[c].pc = "stored",
                             !.call[c].url = FileUrl(FsHost, gfs.port, "1")]
  /\ UNCHANGED <<gear, rec, arc, clip, xf, draw, fil, pq, near, flip, cp, ccw, fs, shaper>>

GfsGot(c) == gfs.call[c].pc \in {"resolved", "stored"}

\* C27: every promise of getFileServer that resolves gives a server that is
\* running and has its port, and start() gets to listen at most once.
C27_ResolvedServerIsRunning ==
  /\ gfs.starts <= 1
  /\ \A c \in GfsCallers :
       GfsGot(c) => gfs.call[c].running /\ gfs.call[c].port # 0

\* What holds of C27: start() gets to listen at most once, the call that
\* created the singleton resolves only to a running server with its port, and
\* so does every call made after the server began to run.
C27_FirstCallResolvesRunning ==
  /\ gfs.starts <= 1
  /\ (gfs.server = "null") = (gfs.starts = 0)
  /\ \A c \in GfsCallers :
       GfsGot(c) /\ ~gfs.call[c].running => gfs.listen \in {"pending", "done", "failed"}
  /\ gfs.listen = "done" => \E c \in GfsCallers :
       GfsGot(c) /\ gfs.call[c].running /\ gfs.call[c].port = gfs.port /\ gfs.port # 0

\* A second call made while the first awaits start() has resolved to a server
\* that is not running, and a URL was made with port 0
C27_RaceState ==
  \E c \in GfsCallers :
    /\ gfs.call[c].pc = "stored" /\ ~gfs.call[c].running
    /\ gfs.call[c].url[4] = "0"
    /\ gfs.listen = "pending"

GfsNext ==
  \/ GfsCall
  \/ GfsListening
  \/ GfsListenError
  \/ GfsStoreFile

(***************************************************************************)
(* OCBodyShaper (src/src/oc/bodyShaper.ts): shapes and the meshed set      *)
(*                                                                         *)
(* Body id `b${n}` is the number n.  A shape is the number of the kernel   *)
(* call that made it, 0 where no shape is stored.  meshedShape records     *)
(* for each id the shape on which getMesh last ran the meshing.            *)
(***************************************************************************)
\* Most bodies and most shapes one shaper makes.
MaxBodies == 3
MaxShapes == 4

BodyIds == 1..MaxBodies

ShaperNew ==
  [shapes |-> [i \in BodyIds |-> 0], meshes |-> {},
   meshedShape |-> [i \in BodyIds |-> 0],
   g_bodyCounter |-> 1, made |-> 0, runs |-> 0, last |-> "new", id |-> 0,
   detached |-> {}]
ShaperInit == shaper = ShaperNew

ShHas(s, id) == id \in BodyIds /\ s.shapes[id] # 0

\* this.shapes.set(id, shape) with a shape just made; this.meshes.delete(id)
\* (first a variant that leaves the meshed set alone)
ShSetKeepMeshed(s, id) ==
  [s EXCEPT !.shapes[id] = s.made + 1, !.made = s.made + 1]
ShSet(s, id) ==
  [s EXCEPT !.shapes[id] = s.made + 1, !.made = s.made + 1,
            !.meshes = s.meshes \ {id}]

\* const id = `b${g_bodyCounter++}`; this.shapes.set(id, ...); this.meshes.delete(id)
ShSetNew(s) == [ShSet(s, s.g_bodyCounter) EXCEPT !.g_bodyCounter = s.g_bodyCounter + 1]

\* OCBodyShaper.moveAndScale(xform, bodyId) with a square transform
moveAndScale(s, bodyId) == IF ShHas(s, bodyId) THEN ShSet(s, bodyId) ELSE s

ShCanMake(n) ==
  /\ shaper.g_bodyCounter + n - 1 <= MaxBodies
  /\ shaper.made + n <= MaxShapes

\* shaper.extrude(...), shaper.instance(xform, body) with a square transform,
\* and shaper.compound(ids) of other than one id: one new body
ShaperMakeOne ==
  /\ ShCanMake(1)
  /\ \E op \in {"extrude", "instance", "compound"} :
       shaper' = [ShSetNew(shaper) EXCEPT !.last = op, !.id = shaper.g_bodyCounter]
  /\ UNCHANGED <<gear, rec, arc, clip, xf, draw, fil, pq, near, flip, cp, ccw, fs, gfs>>

\* shaper.extrudeAll(...) of a sketch with two paths: two new bodies
ShaperExtrudeAll ==
  /\ ShCanMake(2)
  /\ shaper' = [ShSetNew(ShSetNew(shaper)) EXCEPT !.last = "extrudeAll",
                                                  !.id = shaper.g_bodyCounter + 1]
  /\ UNCHANGED <<gear, rec, arc, clip, xf, draw, fil, pq, near, flip, cp, ccw, fs, gfs>>

\* shaper.revolve(...): a new body, then moveAndScale on it, which throws
\* for a transform that is not square
ShaperRevolve ==
  /\ ShCanMake(1)
  /\ \E square \in BOOLEAN :
       /\ square => shaper.made + 2 <= MaxShapes
       /\ LET s == ShSetNew(shaper)
          IN  shaper' = [(IF square THEN moveAndScale(s, shaper.g_bodyCounter) ELSE s)
                           EXCEPT !.last = "revolve", !.id = shaper.g_bodyCounter]
  /\ UNCHANGED <<gear, rec, arc, clip, xf, draw, fil, pq, near, flip, cp, ccw, fs, gfs>>

\* shaper.join(targetId, toolId) and shaper.cut(targetId, toolId) with one
\* tool, both stored, the operation done (they throw otherwise)
ShaperJoinCut ==
  /\ shaper.made + 1 <= MaxShapes
  /\ \E op \in {"join", "cut"}, targetId \in BodyIds, toolId \in BodyIds :
       /\ ShHas(shaper, targetId) /\ ShHas(shaper, toolId)
       /\ shaper' = [ShSet(shaper, targetId) EXCEPT !.last = op, !.id = targetId]
  /\ UNCHANGED <<gear, rec, arc, clip, xf, draw, fil, pq, near, flip, cp, ccw, fs, gfs>>

\* shaper.getMesh(id) of a stored body: meshing runs unless the id is in the
\* meshed set, and it may fail, in which case getMesh throws
ShaperGetMesh ==
  /\ \E id \in BodyIds, done \in BOOLEAN :
       /\ ShHas(shaper, id)
       /\ shaper' =
            IF id \in shaper.meshes THEN [shaper EXCEPT !.last = "getMesh", !.id = id]
            ELSE IF done
              THEN [shaper EXCEPT !.meshes = shaper.meshes \cup {id},
                                  !.meshedShape[id] = shaper.shapes[id],
                                  !.runs = shaper.runs + 1,
                                  !.last = "getMesh", !.id = id]
            ELSE [shaper EXCEPT !.last = "getMesh failed", !.id = id]
  /\ UNCHANGED <<gear, rec, arc, clip, xf, draw, fil, pq, near, flip, cp, ccw, fs, gfs>>

\* shaper.detachShapes(ids)
ShaperDetachShapes ==
  /\ \E ids \in SUBSET BodyIds :
       /\ ids # {} /\ \E id \in ids : ShHas(shaper, id)
       /\ shaper' = [shaper EXCEPT !.shapes = [i \in BodyIds |-> IF i \in ids THEN 0 ELSE shaper.shapes[i]],
                                   !.meshes = shaper.meshes \ ids,
                                   !.last = "detachShapes", !.id = 0, !.detached = ids]
  /\ UNCHANGED <<gear, rec, arc, clip, xf, draw, fil, pq, near, flip, cp, ccw, fs, gfs>>

\* shaper.delete()
ShaperDelete ==
  /\ shaper.last \notin {"new", "delete"}
  /\ shaper' = [shaper EXCEPT !.shapes = [i \in BodyIds |-> 0],
                              !.last = "delete", !.id = 0]
  /\ UNCHANGED <<gear, rec, arc, clip, xf, draw, fil, pq, near, flip, cp, ccw, fs, gfs>>

ShaperStoreOps == {"extrude", "instance", "compound", "extrudeAll", "revolve", "join", "cut"}

\* C28 as stated: an id is in the meshed set only while a shape is stored
\* under it and that shape is the one that was meshed.
C28_MeshedOnlyWhileShapeStored ==
  \A id \in shaper.meshes :
    ShHas(shaper, id) /\ shaper.meshedShape[id] = shaper.shapes[id]

\* C28, for the ids that have a shape: the shape stored under an id of the
\* meshed set is the one that was meshed; right after an operation stored a
\* new shape under an id the id is not in the meshed set, so that the next
\* getMesh of it runs the meshing on the new shape; after detachShapes the
\* detached ids are in neither map; and the ids of the meshed set are never
\* given to a new body.
C28_StoredMeshedShapeIsTheMeshedOne ==
  /\ \A id \in shaper.meshes :
       ShHas(shaper, id) => shaper.meshedShape[id] = shaper.shapes[id]
  /\ shaper.last \in ShaperStoreOps =>
       shaper.id \notin shaper.meshes /\ shaper.shapes[shaper.id] = shaper.made
  /\ shaper.last = "getMesh" =>
       shaper.id \in shaper.meshes /\ shaper.meshedShape[shaper.id] = shaper.shapes[shaper.id]
  /\ shaper.last = "detachShapes" =>
       \A id \in shaper.detached : ~ShHas(shaper, id) /\ id \notin shaper.meshes
  /\ \A id \in shaper.meshes : id < shaper.g_bodyCounter

\* A meshed body was the target of a join or cut, and getMesh has run the
\* meshing a second time, on the new shape
C28_Witness ==
  /\ shaper.last = "getMesh" /\ shaper.id = 1 /\ shaper.runs = 2
  /\ shaper.g_bodyCounter = 3 /\ shaper.made = 3
  /\ shaper.shapes[2] = 2 /\ shaper.meshedShape[2] = 0
  /\ shaper.shapes[1] = 3 /\ shaper.meshedShape[1] = 3

ShaperNext ==
  \/ ShaperMakeOne
  \/ ShaperExtrudeAll
  \/ ShaperRevolve
  \/ ShaperJoinCut
  \/ ShaperGetMesh
  \/ ShaperDetachShapes
  \/ ShaperDelete

GearNext == CreateGearPair


Init ==
  /\ GearInit /\ RecInit /\ ArcInit /\ ClipInit /\ XfInit /\ DrawInit /\ FilInit /\ PqInit
  /\ NearInit /\ FlipInit /\ CpInit /\ CcwInit /\ FsInit /\ GfsInit /\ ShaperInit

SpecGear == Init /\ [][GearNext]_vars
SpecRec == Init /\ [][RecNext]_vars
SpecArc == Init /\ [][ArcNext]_vars
SpecClip == Init /\ [][ClipNext]_vars
SpecXf == Init /\ [][XfNext]_vars
SpecDraw == Init /\ [][DrawNext]_vars
SpecFil == Init /\ [][FilNext]_vars
SpecPq == Init /\ [][PqNext]_vars
SpecNear == Init /\ [][NearNext]_vars
SpecFlip == Init /\ [][FlipNext]_vars
SpecCp == Init /\ [][CpNext]_vars
SpecCcw == Init /\ [][CcwNext]_vars
SpecFs == Init /\ [][FsNext]_vars
SpecGfs == Init /\ [][GfsNext]_vars
SpecShaper == Init /\ [][ShaperNext]_vars

=============================================================================
